---- MODULE Spec2Model ----
(***************************************************************************)
(* Position-management engine of pumpfunbot: the position ledger           *)
(* (Positions), the exit policy engine (Tracker) with its sell submission  *)
(* protocol, the no-inflow probe of the launch pipeline, and the wallet    *)
(* buy detector (startBuyDetection).                                       *)
(*                                                                         *)
(* The program is one Node.js process: every action below is one run of    *)
(* the event loop from a callback (timer, RPC reply, log notification) to  *)
(* the next suspension at network I/O or a timer.                          *)
(***************************************************************************)
EXTENDS Integers, Sequences, FiniteSets, TLC

\* ------------------------------------------------------------------ bounds

\* Clock horizon, in seconds: the clock stops advancing there.
MaxTicks == 4
\* Buy events (detected wallet buys and simulated buys) over a run.
MaxBuys == 2
\* Log notifications delivered for one signature (a notification may repeat).
MaxDeliver == 2
\* Transactions of the wallet that appear on chain over a run.
MaxSigs == 2
\* Transactions of the wallet that appear on chain over a run of the polling
\* detector: one before the first poll and two for a later poll to order.
MaxPolled == 3

Mints == {"A", "B"}
\* The <<token delta, lamport cost>> a buy event may carry.
BuyAmounts == {<<1, 10>>, <<2, 30>>}
\* Values the pricing oracle may quote for selling the whole position.
Quotes == {0, 12, 30}

\* ------------------------------------------------------- program constants

MinHoldMs == 2000
TpBps == 3500
SlBps == -2000
TrailingSlBps == 3000
MaxAttempts == 2
ProcessedCap == 200
PollLimit == 20
LoopSleepMs == 1000

\* ------------------------------------------------------------------- state

VARIABLES
  now,          \* wall clock, seconds
  cfg,          \* the configuration the process was started with
  positions,    \* Positions: [byMint: insertion-ordered refs, objs: heap, nextUid]
  buys,         \* buy events delivered so far
  \* Tracker
  stopFlag, selling, lastSolOut, lastChangeAt,
  tpc,          \* where Tracker.loop is suspended
  wakeAt,       \* ms at which the loop's sleep timer is due
  snap, idx,    \* the tick's array `all` and the index of `p` under evaluation
  sell,         \* the running sellAll call
  det,          \* the wallet-buy detector of startBuyDetection
  calc,         \* one exit-policy evaluation on chosen inputs
  ld,           \* the launch detector of startOnchainCreateDetection
  dq,           \* the decision queue of index.ts
  ab,           \* one call of attemptAutoBuy
  launched,     \* the mints the decision queue has processed
  probe,        \* the no-inflow probes of index.ts, per mint
  \* observation (history) variables
  sumTokens, sumCost, hist

vars == <<now, cfg, positions, buys, stopFlag, selling, lastSolOut, lastChangeAt,
          tpc, wakeAt, snap, idx, sell, det, calc, ld, dq, ab, launched, probe,
          sumTokens, sumCost, hist>>

\* The ledger, the tracker and the buy detector together.
world == <<now, cfg, positions, buys, stopFlag, selling, lastSolOut, lastChangeAt,
           tpc, wakeAt, snap, idx, sell, det, launched, probe, sumTokens, sumCost, hist>>

NowMs == now * 1000

\* ------------------------------------------------------------------ ledger

Uids == 1..MaxBuys
NoObj == [mint |-> "", openedAt |-> 0, openedSig |-> 0, tokens |-> 0,
          costLamports |-> 0, peakSolOut |-> -1]
\* peakSolOut = -1 stands for the absent optional field.
NoPeak == -1

EmptyPositions == [byMint |-> <<>>, objs |-> [u \in Uids |-> NoObj], nextUid |-> 1]

RECURSIVE SeqFind(_, _, _)
\* The first index >= i of s whose element satisfies objs[.].mint = key, or 0.
SeqFind(P, key, i) ==
  IF i > Len(P.byMint) THEN 0
  ELSE IF P.objs[P.byMint[i]].mint = key THEN i
  ELSE SeqFind(P, key, i + 1)

\* Positions.get: the object stored under the mint, 0 for undefined.
get(P, mint) ==
  LET i == SeqFind(P, mint, 1) IN IF i = 0 THEN 0 ELSE P.byMint[i]

\* Positions.all: a fresh array of the stored object references.
all(P) == P.byMint

\* A buggy addBuy that stores the latest buy instead of accumulating.
addBuyOverwrite(P, pos) ==
  LET existing == get(P, pos.mint) IN
  IF existing # 0
    THEN [P EXCEPT !.objs[existing] =
            [@ EXCEPT !.tokens = pos.tokens,
                      !.costLamports = pos.costLamports,
                      !.openedSig = pos.openedSig,
                      !.openedAt = pos.openedAt]]
    ELSE [P EXCEPT !.objs[P.nextUid] = pos,
                   !.byMint = Append(@, P.nextUid),
                   !.nextUid = @ + 1]

\* A variant of addBuy that keeps the time and signature of the first buy.
addBuyKeepsOpened(P, pos) ==
  LET existing == get(P, pos.mint) IN
  IF existing # 0
    THEN [P EXCEPT !.objs[existing] =
            [@ EXCEPT !.tokens = @ + pos.tokens,
                      !.costLamports = @ + pos.costLamports]]
    ELSE [P EXCEPT !.objs[P.nextUid] = pos,
                   !.byMint = Append(@, P.nextUid),
                   !.nextUid = @ + 1]

\* Positions.addBuy
addBuy(P, pos) ==
  LET existing == get(P, pos.mint) IN
  IF existing # 0
    THEN [P EXCEPT !.objs[existing] =
            [@ EXCEPT !.tokens = @ + pos.tokens,
                      !.costLamports = @ + pos.costLamports,
                      !.openedSig = pos.openedSig,
                      !.openedAt = pos.openedAt]]
    ELSE [P EXCEPT !.objs[P.nextUid] = pos,
                   !.byMint = Append(@, P.nextUid),
                   !.nextUid = @ + 1]

\* Positions.update, as the tracker uses it: fields = { peakSolOut }.
update(P, mint, peak) ==
  LET existing == get(P, mint) IN
  IF existing = 0 THEN P
  ELSE [P EXCEPT !.objs[existing].peakSolOut = peak]

\* Positions.close: Map.delete keeps the order of the other entries.
close(P, mint) ==
  [P EXCEPT !.byMint = SelectSeq(@, LAMBDA u : P.objs[u].mint # mint)]

Live(P, u) == \E i \in 1..Len(P.byMint) : P.byMint[i] = u

\* Heap normalisation: an object no reference can reach any more (not stored in
\* the map, not held by a suspended callback) is forgotten.
Gc(P, refs) ==
  [P EXCEPT !.objs = [u \in Uids |->
     IF Live(P, u) \/ u \in refs THEN P.objs[u] ELSE NoObj]]

\* ------------------------------------------------------------ arithmetic

\* BN.div: truncated division (b > 0).
TruncDiv(a, b) == IF a >= 0 THEN a \div b ELSE -((-a) \div b)

\* pnlLamports.muln(10000).div(costLamports), 0 for a zero cost: the PnL in
\* basis points; the code's pnlPct is this number / 10000.
pnlBpsOf(out, cost) == IF cost = 0 THEN 0 ELSE TruncDiv((out - cost) * 10000, cost)

\* netOutWithFees: priority fee and base fee off the gross proceeds, clamped at 0.
netOutWithFees(gross) ==
  LET net == gross - cfg.simFee IN IF net < 0 THEN 0 ELSE net

\* ------------------------------------------------------- configurations

\* The configurations a run may start with (config.ts, TrackerConfig): live
\* selling, dry run, and simulation with each auxiliary exit switched on alone.
MkCfg(se, sm, st, ttl, fl, nf) ==
  [sellEnabled |-> se, simulationMode |-> sm, sellStrategy |-> st,
   simHardSlEnabled |-> TRUE, simTtlMs |-> ttl, simFlatSecs |-> fl,
   simFlatBps |-> 1000, simNoFlow |-> nf, simFee |-> 2, volumeWindowSeconds |-> 1]

Strategies == {"fixed", "trailing"}

\* Live selling.
LiveConfigs == {MkCfg(TRUE, FALSE, st, 0, 0, FALSE) : st \in Strategies}

\* Selling disabled: dry run, and simulation with each auxiliary exit on alone.
SimConfigs ==
  {MkCfg(FALSE, sm, st, 0, 0, FALSE) : sm \in BOOLEAN, st \in Strategies}
  \cup {MkCfg(FALSE, TRUE, st, 3000, 0, FALSE) : st \in Strategies}
  \cup {MkCfg(FALSE, TRUE, st, 0, 1, FALSE) : st \in Strategies}
  \cup {MkCfg(FALSE, TRUE, st, 0, 0, TRUE) : st \in Strategies}

\* simulationMode && !sellEnabled, the guard of every simulated close.
SimOnly == cfg.simulationMode /\ ~cfg.sellEnabled

\* -------------------------------------------------- Tracker.evaluatePosition

\* What sdk.fetchBuyState may answer: an error the code classifies as a manual
\* close, any other error, or the market state with the owner's token account.
\* A missing or empty token account ends the evaluation before the market
\* state is read, so one market state stands for all with it.
FetchResults ==
  {[kind |-> "notFound", ata |-> "ok", complete |-> FALSE, solOut |-> 0],
   [kind |-> "error", ata |-> "ok", complete |-> FALSE, solOut |-> 0]}
  \cup {[kind |-> "ok", ata |-> a, complete |-> FALSE, solOut |-> 0] :
          a \in {"missing", "zero"}}
  \cup {[kind |-> "ok", ata |-> "undecodable", complete |-> FALSE, solOut |-> q] :
          q \in Quotes}
  \cup {[kind |-> "ok", ata |-> "ok", complete |-> c, solOut |-> q] :
          c \in BOOLEAN, q \in Quotes}

NoTrade == [reason |-> "", proceeds |-> 0, pnlLamports |-> 0, pnlBps |-> 0]

\* The record store.simTradeClose receives (pnlPct kept in basis points).
Trade(reason, proceeds, pnlLamports, bps) ==
  [reason |-> reason, proceeds |-> proceeds, pnlLamports |-> pnlLamports, pnlBps |-> bps]

\* A simulated close on net proceeds with the PnL recomputed on them.
NetTrade(reason, solOut, pos) ==
  LET netOut == netOutWithFees(solOut) IN
  Trade(reason, netOut, netOut - pos.costLamports, pnlBpsOf(netOut, pos.costLamports))

\* A simulated close on net proceeds that reports the gross pnlPct.
GrossPctTrade(reason, solOut, pos) ==
  LET netOut == netOutWithFees(solOut) IN
  Trade(reason, netOut, netOut - pos.costLamports, pnlBpsOf(solOut, pos.costLamports))

\* Lines 79-82: TRUE when the position may be evaluated at nowMs.
holdGate(pos, nowMs) == ~(nowMs < pos.openedAt * 1000 + MinHoldMs)

\* A peak test that takes no first quote for a peak.
newPeakOnlyAbove(pos, solOut) == pos.peakSolOut # NoPeak /\ solOut > pos.peakSolOut

\* A peak test that also follows the quote down.
newPeakAnyMove(pos, solOut) == pos.peakSolOut = NoPeak \/ solOut # pos.peakSolOut

\* Line 244: !pos.peakSolOut || solOut.gt(pos.peakSolOut); a BN object is truthy.
newPeak(pos, solOut) == pos.peakSolOut = NoPeak \/ solOut > pos.peakSolOut

\* A trailing trigger that misses the trigger value itself.
trailingHitStrict(pos, solOut) ==
  solOut < TruncDiv(pos.peakSolOut * (10000 - TrailingSlBps), 10000)

\* Lines 257-260: the trailing trigger.
trailingHit(pos, solOut) ==
  solOut <= TruncDiv(pos.peakSolOut * (10000 - TrailingSlBps), 10000)

\* A fixed trigger that misses the thresholds themselves.
fixedHitStrict(bps) == bps > TpBps \/ bps < SlBps

\* Line 317: pnlPct >= tpPct || pnlPct <= slPct.
fixedHit(bps) == bps >= TpBps \/ bps <= SlBps

fixedReason(bps) == IF bps >= TpBps THEN "TP" ELSE "SL"

\* The outcome of the synchronous part of evaluatePosition that follows the
\* reply r of fetchBuyState, for the snapshot object pos: the ledger after it,
\* what the call does next (return, start sellAll, throw), the simulated trade
\* it recorded, and the flat-exit maps.
Outcome(P, act, trade, lso, lca) ==
  [P |-> P, act |-> act, trade |-> trade, lso |-> lso, lca |-> lca]

\* Lines 352-395: flat exit tracking.
flatExit(P, pos, solOut, lso, lca) ==
  LET key == pos.mint
      last == lso[key]
      relBps == IF last <= 0 THEN 0
                ELSE TruncDiv((IF solOut >= last THEN solOut - last ELSE last - solOut) * 10000, last)
      since == NowMs - (IF lca[key] <= 0 THEN NowMs ELSE lca[key])
  IN
  IF ~(SimOnly /\ cfg.simFlatSecs > 0 /\ cfg.simFlatBps > 0)
    THEN Outcome(P, "return", NoTrade, lso, lca)
  ELSE IF last <= 0
    THEN Outcome(P, "return", NoTrade,
                 [lso EXCEPT ![key] = solOut], [lca EXCEPT ![key] = NowMs])
  ELSE IF relBps <= cfg.simFlatBps
    THEN IF since >= cfg.simFlatSecs * 1000
           THEN Outcome(close(P, key), "return", NetTrade("FLAT", solOut, pos),
                        [lso EXCEPT ![key] = -1], [lca EXCEPT ![key] = -1])
           ELSE Outcome(P, "return", NoTrade, lso, lca)
  ELSE Outcome(P, "return", NoTrade,
               [lso EXCEPT ![key] = solOut], [lca EXCEPT ![key] = NowMs])

\* Lines 242-314: the trailing branch.
trailing(P, pos, solOut, S, lso, lca) ==
  LET key == pos.mint
      bps == pnlBpsOf(solOut, pos.costLamports)
      hardSl == IF SimOnly /\ cfg.simHardSlEnabled /\ bps <= SlBps
                  THEN Outcome(close(P, key), "return",
                               GrossPctTrade("SL", solOut, pos), lso, lca)
                  ELSE Outcome(P, "return", NoTrade, lso, lca)
  IN
  IF newPeak(pos, solOut)
    THEN Outcome(update(P, key, solOut), "return", NoTrade, lso, lca)
  ELSE IF trailingHit(pos, solOut)
    THEN IF ~cfg.sellEnabled
           THEN IF cfg.simulationMode
                  THEN Outcome(close(P, key), "return",
                               NetTrade("TSL", solOut, pos), lso, lca)
                  ELSE Outcome(P, "return", NoTrade, lso, lca)
         ELSE IF key \in S THEN Outcome(P, "return", NoTrade, lso, lca)
         ELSE Outcome(P, "sell", NoTrade, lso, lca)
  ELSE hardSl

\* Lines 316-350: the fixed take-profit / stop-loss branch, then the flat exit.
fixed(P, pos, solOut, S, lso, lca) ==
  LET key == pos.mint
      bps == pnlBpsOf(solOut, pos.costLamports)
  IN
  IF fixedHit(bps)
    THEN IF ~cfg.sellEnabled
           THEN IF cfg.simulationMode
                  THEN Outcome(close(P, key), "return",
                               GrossPctTrade(fixedReason(bps), solOut, pos), lso, lca)
                  ELSE Outcome(P, "return", NoTrade, lso, lca)
         ELSE IF key \in S THEN Outcome(P, "return", NoTrade, lso, lca)
         ELSE Outcome(P, "sell", NoTrade, lso, lca)
  ELSE flatExit(P, pos, solOut, lso, lca)

\* Lines 83-350: from the reply of fetchBuyState to the first of return, throw
\* and the call of sellAll.
\* A variant that leaves a position on a completed curve in the ledger.
curveCompleteKeeps(P, pos, solOut, lso, lca) ==
  Outcome(P, "return", NoTrade, lso, lca)

\* Lines 161-185: the curve is complete (migrated); the position is dropped,
\* with a HALT record in simulation and without one otherwise.
curveComplete(P, pos, solOut, lso, lca) ==
  Outcome(close(P, pos.mint), "return",
          IF SimOnly THEN NetTrade("HALT", solOut, pos) ELSE NoTrade, lso, lca)

evaluatePosition(P, pos, r, S, lso, lca) ==
  LET key == pos.mint
      solOut == r.solOut
  IN
  IF r.kind = "notFound"
    THEN Outcome(close(P, key), "return",
                 IF SimOnly THEN Trade("HALT", 0, -pos.costLamports, -10000) ELSE NoTrade,
                 lso, lca)
  ELSE IF r.kind = "error"
    THEN Outcome(P, "throw", NoTrade, lso, lca)
  ELSE IF ~cfg.simulationMode /\ r.ata \in {"missing", "zero"}
    THEN Outcome(close(P, key), "return", NoTrade, lso, lca)
  ELSE IF r.complete
    THEN curveComplete(P, pos, solOut, lso, lca)
  ELSE IF SimOnly /\ cfg.simTtlMs > 0 /\ NowMs >= pos.openedAt * 1000 + cfg.simTtlMs
    THEN Outcome(close(P, key), "return", NetTrade("TTL", solOut, pos), lso, lca)
  ELSE IF cfg.sellStrategy = "trailing"
    THEN trailing(P, pos, solOut, S, lso, lca)
  ELSE fixed(P, pos, solOut, S, lso, lca)

\* ------------------------------------------------------------ Tracker.loop

\* The outcome of the last exit attempt, none when the last step ended none.
NoExit == [uid |-> 0, result |-> "none", subs |-> 0, timeouts |-> 0, errAt |-> 0,
           live |-> FALSE]

\* The history of simulated closes: how many records an object got, and the last.
NoteTrade(h, u, trade) ==
  IF trade = NoTrade THEN h
  ELSE [h EXCEPT !.simCloses[u] = @ + 1, !.lastTrade = trade]

\* The positions whose evaluation read a completed curve, and the last of them.
NoteHalt(h, u, r) ==
  IF r.kind = "ok" /\ r.complete
    THEN [h EXCEPT !.halted = @ \cup {u}, !.lastHalt = u]
    ELSE h

\* The position whose evaluation found its token account missing or empty:
\* by the classified fetch error, or, outside simulation mode, by the account
\* info read with the market state.
NoteGone(h, u, r) ==
  IF r.kind = "notFound"
     \/ (r.kind = "ok" /\ ~cfg.simulationMode /\ r.ata \in {"missing", "zero"})
    THEN [h EXCEPT !.lastGone = u]
    ELSE h

\* The notes on the step before are dropped when the next step is taken.
Fresh(h) == [h EXCEPT !.lastWait = [stage |-> "", res |-> ""],
                      !.lastExit = NoExit, !.lastTrade = NoTrade, !.tickCut = FALSE,
                      !.lastHalt = 0, !.lastGone = 0]

SellPcs == {"sellIx", "blockhash", "send", "waitProcessed", "waitConfirmed"}

\* costAtStart is history: the position's costLamports when sellAll started.
NoSell == [uid |-> 0, mint |-> "", amount |-> 0, expectedSol |-> 0,
           attempt |-> 0, subs |-> 0, timeouts |-> 0, errAt |-> 0,
           costAtStart |-> 0]

ProbeIds == {1, 2}

\* The position objects a suspended probe still holds.
ProbeRefs(pr) == {pr[m][k].pos : m \in Mints, k \in ProbeIds} \ {0}

\* The elements of the tick's array from index j on.
SnapRefs(s, j) == {s[k] : k \in j..Len(s)}

RECURSIVE NextEval(_, _, _)
\* The first index >= i of the tick's array whose position passes the hold gate
\* now, 0 when the array is exhausted: evaluatePosition returns at once on the
\* others, and the for loop goes on without yielding to another callback.
NextEval(P, s, i) ==
  IF i > Len(s) THEN 0
  ELSE IF holdGate(P.objs[s[i]], NowMs) THEN i
  ELSE NextEval(P, s, i + 1)

\* Lines 524-530: the for loop from element i of the array on, up to the next
\* suspension: the fetchBuyState of an eligible position, or the 1 s sleep.
LoopFrom(P, s, i, h) ==
  LET j == NextEval(P, s, i) IN
  IF j # 0
    THEN /\ tpc' = "fetch"
         /\ idx' = j
         /\ snap' = s
         /\ wakeAt' = wakeAt
         /\ positions' = Gc(P, SnapRefs(s, j) \cup ProbeRefs(probe))
         /\ hist' = [h EXCEPT !.evalStale = @ \/ ~Live(P, s[j])]
    ELSE /\ tpc' = "sleep"
         /\ idx' = 0
         /\ snap' = <<>>
         /\ wakeAt' = NowMs + LoopSleepMs
         /\ positions' = Gc(P, ProbeRefs(probe))
         /\ hist' = h

\* Lines 527-530: an exception leaves the for loop; the tick ends in the sleep.
LoopAbort(P, h) ==
  /\ tpc' = "sleep"
  /\ idx' = 0
  /\ snap' = <<>>
  /\ wakeAt' = NowMs + LoopSleepMs
  /\ positions' = Gc(P, ProbeRefs(probe))
  /\ hist' = [h EXCEPT !.tickCut = NextEval(P, snap, idx + 1) # 0]

\* A variant of the loop condition that does not read the flag.
loopGoesOnRegardless(flag) == TRUE

\* Line 521: while (!this.stopFlag).
loopGoesOn(flag) == ~flag

\* Lines 520-531: the sleep timer fires; the loop ends when stop() was called,
\* otherwise takes positions.all() and evaluates.
LoopWake ==
  /\ tpc = "sleep"
  /\ NowMs >= wakeAt
  /\ IF ~loopGoesOn(stopFlag)
       THEN /\ tpc' = "done"
            /\ UNCHANGED <<idx, snap, wakeAt, positions, hist>>
       ELSE LoopFrom(positions, all(positions), 1, Fresh(hist))
  /\ UNCHANGED <<now, cfg, det, calc, ld, dq, ab, buys, stopFlag, selling, lastSolOut, lastChangeAt, sell,
                 launched, probe, sumTokens, sumCost>>

\* Tracker.stop, called by the shutdown handler.
Stop ==
  /\ ~stopFlag
  /\ stopFlag' = TRUE
  /\ UNCHANGED <<now, cfg, det, calc, ld, dq, ab, positions, buys, selling, lastSolOut, lastChangeAt, tpc,
                 wakeAt, snap, idx, sell, launched, probe, sumTokens, sumCost, hist>>

\* A marker that is never set.
markSellingNoop(S, key) == S

\* Lines 284 and 342: this.selling.add(key).
markSelling(S, key) == S \cup {key}

\* A variant that leaves the marker in the set.
unmarkSellingNever(S, key) == S

\* Lines 289 and 348: this.selling.delete(key).
unmarkSelling(S, key) == S \ {key}

\* The reply of fetchBuyState arrives for the position under evaluation.
EvalFetched(r) ==
  /\ tpc = "fetch"
  /\ LET u == snap[idx]
         pos == positions.objs[u]
         o == evaluatePosition(positions, pos, r, selling, lastSolOut, lastChangeAt)
         h == NoteGone(NoteHalt(NoteTrade(Fresh(hist), u, o.trade), u, r), u, r)
     IN
     /\ lastSolOut' = o.lso
     /\ lastChangeAt' = o.lca
     /\ CASE o.act = "return" ->
               /\ LoopFrom(o.P, snap, idx + 1, h)
               /\ UNCHANGED <<selling, sell>>
          [] o.act = "throw" ->
               /\ LoopAbort(o.P, h)
               /\ UNCHANGED <<selling, sell>>
          [] o.act = "sell" ->
               \* sellAll starts: the amount is pos.tokens as of now, and the
               \* call suspends in sdk.sellInstructions.
               /\ selling' = markSelling(selling, pos.mint)
               /\ sell' = [NoSell EXCEPT !.uid = u, !.mint = pos.mint,
                                         !.amount = pos.tokens,
                                         !.expectedSol = r.solOut,
                                         !.costAtStart = pos.costLamports]
               /\ tpc' = "sellIx"
               /\ positions' = Gc(o.P, SnapRefs(snap, idx) \cup ProbeRefs(probe))
               /\ hist' = [h EXCEPT !.sellReentered = @ \/ pos.mint \in selling,
                                    !.sellEarly = @ \/ NowMs < pos.openedAt * 1000 + MinHoldMs]
               /\ UNCHANGED <<idx, snap, wakeAt>>
  /\ UNCHANGED <<now, cfg, det, calc, ld, dq, ab, buys, stopFlag, launched, probe, sumTokens, sumCost>>

\* --------------------------------------------------------- Tracker.sellAll

\* What is left of an exit attempt when sellAll is over.
ExitOf(sl, result, P) ==
  [uid |-> sl.uid, result |-> result, subs |-> sl.subs, timeouts |-> sl.timeouts,
   errAt |-> sl.errAt, live |-> Live(P, sl.uid)]

\* sellAll throws (lines 471, 486, or a failed RPC): the finally of
\* evaluatePosition clears the marker and the loop's catch ends the tick.
SellThrow(sl, h) ==
  /\ selling' = unmarkSelling(selling, sl.mint)
  /\ sell' = NoSell
  /\ LoopAbort(positions, [h EXCEPT !.lastExit = ExitOf(sl, "fail", positions)])

\* sdk.sellInstructions answers; the while loop starts its first attempt and
\* suspends in getLatestBlockhash (lines 432-447).
SellIxDone(ok) ==
  /\ tpc = "sellIx"
  /\ IF ok
       THEN /\ sell' = [sell EXCEPT !.attempt = 1]
            /\ tpc' = "blockhash"
            /\ UNCHANGED <<selling, idx, snap, wakeAt, positions, hist>>
       ELSE SellThrow(sell, hist)
  /\ UNCHANGED <<now, cfg, det, calc, ld, dq, ab, buys, stopFlag, lastSolOut, lastChangeAt, launched, probe,
                 sumTokens, sumCost>>

\* getLatestBlockhash answers; the transaction is built, signed and sent
\* (lines 447-459).
BlockhashDone(ok) ==
  /\ tpc = "blockhash"
  /\ IF ok
       THEN /\ tpc' = "send"
            /\ UNCHANGED <<sell, selling, idx, snap, wakeAt, positions, hist>>
       ELSE SellThrow(sell, hist)
  /\ UNCHANGED <<now, cfg, det, calc, ld, dq, ab, buys, stopFlag, lastSolOut, lastChangeAt, launched, probe,
                 sumTokens, sumCost>>

\* sendRawTransaction answers with the signature; the fast wait starts
\* (lines 455-464).
SendDone(ok) ==
  /\ tpc = "send"
  /\ IF ok
       THEN /\ sell' = [sell EXCEPT !.subs = @ + 1]
            /\ tpc' = "waitProcessed"
            /\ UNCHANGED <<selling, idx, snap, wakeAt, positions, hist>>
       ELSE SellThrow(sell, hist)
  /\ UNCHANGED <<now, cfg, det, calc, ld, dq, ab, buys, stopFlag, lastSolOut, lastChangeAt, launched, probe,
                 sumTokens, sumCost>>

\* What waitSignatureWS may settle with: the notification without or with an
\* on-chain error, or the timer.
WaitResults == {"ok", "err", "timeout"}

\* A fast wait that goes on to the confirmed wait when it timed out.
processedWaitNextNoResubmit(res, attempt) ==
  IF res = "ok" \/ res = "timeout" THEN "confirm"
  ELSE IF attempt < MaxAttempts THEN "resubmit" ELSE "throw"

\* Lines 463-472: after the 'processed' wait.
processedWaitNext(res, attempt) ==
  IF res = "ok" THEN "confirm"
  ELSE IF attempt < MaxAttempts THEN "resubmit" ELSE "throw"

\* A confirmed wait that takes the last timeout for a success.
confirmedWaitNextLenient(res, attempt) ==
  IF res = "ok" THEN "success"
  ELSE IF res = "timeout" THEN (IF attempt < MaxAttempts THEN "resubmit" ELSE "success")
  ELSE "throw"

\* Lines 475-487: after the 'confirmed' wait.
confirmedWaitNext(res, attempt) ==
  IF res = "ok" THEN "success"
  ELSE IF attempt < MaxAttempts /\ res = "timeout" THEN "resubmit"
  ELSE "throw"

\* The history of one wait: its stage and result, the timeouts so far, and the
\* submission during which an on-chain error was first reported.
NoteWait(sl, stage, res) ==
  [sl EXCEPT !.timeouts = IF res = "timeout" THEN @ + 1 ELSE @,
             !.errAt = IF res = "err" /\ @ = 0 THEN sl.subs ELSE @]

\* The 'processed' wait settles.
WaitProcessedDone(res) ==
  /\ tpc = "waitProcessed"
  /\ LET sl == NoteWait(sell, "processed", res)
         h == [hist EXCEPT !.lastWait = [stage |-> "processed", res |-> res]]
         next == processedWaitNext(res, sell.attempt)
     IN
     CASE next = "confirm" ->
            /\ sell' = sl
            /\ tpc' = "waitConfirmed"
            /\ hist' = h
            /\ UNCHANGED <<selling, idx, snap, wakeAt, positions>>
       [] next = "resubmit" ->
            /\ sell' = [sl EXCEPT !.attempt = @ + 1]
            /\ tpc' = "blockhash"
            /\ hist' = h
            /\ UNCHANGED <<selling, idx, snap, wakeAt, positions>>
       [] next = "throw" -> SellThrow(sl, h)
  /\ UNCHANGED <<now, cfg, det, calc, ld, dq, ab, buys, stopFlag, lastSolOut, lastChangeAt, launched, probe,
                 sumTokens, sumCost>>

\* The 'confirmed' wait settles; on success sellAll closes the position
\* (line 490), the marker is cleared and the for loop goes on.
WaitConfirmedDone(res) ==
  /\ tpc = "waitConfirmed"
  /\ LET sl == NoteWait(sell, "confirmed", res)
         h == [hist EXCEPT !.lastWait = [stage |-> "confirmed", res |-> res]]
         next == confirmedWaitNext(res, sell.attempt)
         P == close(positions, sell.mint)
     IN
     CASE next = "success" ->
            /\ selling' = unmarkSelling(selling, sell.mint)
            /\ sell' = NoSell
            /\ LoopFrom(P, snap, idx + 1, [h EXCEPT !.lastExit = ExitOf(sl, "ok", P)])
       [] next = "resubmit" ->
            /\ sell' = [sl EXCEPT !.attempt = @ + 1]
            /\ tpc' = "blockhash"
            /\ hist' = h
            /\ UNCHANGED <<selling, idx, snap, wakeAt, positions>>
       [] next = "throw" -> SellThrow(sl, h)
  /\ UNCHANGED <<now, cfg, det, calc, ld, dq, ab, buys, stopFlag, lastSolOut, lastChangeAt, launched, probe,
                 sumTokens, sumCost>>

\* ------------------------------------------------- buy events and the clock

\* The position objects the tracker's suspended tick still reads.
TrackerRefs == IF idx = 0 THEN {} ELSE SnapRefs(snap, idx)

\* index.ts lines 301-333, the onBuy callback: a fresh position object from the
\* event, accumulated into the ledger.
onBuy(P, evt) ==
  addBuy(P, [mint |-> evt.mint,
             openedAt |-> IF evt.blockTime = 0 THEN now ELSE evt.blockTime,
             openedSig |-> evt.signature,
             tokens |-> evt.tokenDelta,
             costLamports |-> evt.solCostLamports,
             peakSolOut |-> NoPeak])

\* The block times an event observed now may carry; 0 stands for none.
BlockTimes == {0} \cup {t \in {now - 1} : t >= 1}

\* The object an addBuy for the mint accumulates into.
TargetOf(P, mint) == IF get(P, mint) # 0 THEN get(P, mint) ELSE P.nextUid

\* The buy detector reports a buy of the tracked wallet.
BuyArrives(m, dt, dc, bt) ==
  /\ buys < MaxBuys
  /\ buys' = buys + 1
  /\ positions' = onBuy(positions, [mint |-> m, blockTime |-> bt, signature |-> buys + 1,
                                    tokenDelta |-> dt, solCostLamports |-> dc])
  /\ sumTokens' = [sumTokens EXCEPT ![TargetOf(positions, m)] = @ + dt]
  /\ sumCost' = [sumCost EXCEPT ![TargetOf(positions, m)] = @ + dc]
  /\ UNCHANGED <<now, cfg, det, calc, ld, dq, ab, stopFlag, selling, lastSolOut, lastChangeAt, tpc, wakeAt,
                 snap, idx, sell, launched, probe, hist>>

\* part_005 lines 56-69, simulateAutoBuy: the simulated position of the
\* decision queue's entry, opened at the candidate's creation time.
simulateAutoBuy(P, m, amountTokens, totalCost, createdAt) ==
  addBuy(P, [mint |-> m, openedAt |-> createdAt, openedSig |-> 0,
             tokens |-> amountTokens, costLamports |-> totalCost,
             peakSolOut |-> NoPeak])

\* A second of wall-clock time passes.
Tick ==
  /\ now < MaxTicks
  /\ now' = now + 1
  /\ UNCHANGED <<cfg, det, calc, ld, dq, ab, positions, buys, stopFlag, selling, lastSolOut, lastChangeAt,
                 tpc, wakeAt, snap, idx, sell, launched, probe, sumTokens, sumCost, hist>>

\* ------------------------------------------- the no-inflow probe (index.ts)

ProbeRetryMs == 5000

\* index.ts lines 110-166 and 258-290: processQueue, for a candidate that
\* passed the gates in simulation, schedules the probe twice
\* (volumeWindowSeconds after the creation and 5 s later) and opens the
\* simulated position with simulateAutoBuy.  A mint is created once, so it is
\* a candidate once.  Only a probe that can close a position (no-flow floor
\* set) is followed.
SimLaunch(m, dt, dc) ==
  /\ cfg.simulationMode
  /\ buys < MaxBuys
  /\ ~launched[m]
  /\ launched' = [launched EXCEPT ![m] = TRUE]
  /\ buys' = buys + 1
  /\ positions' = simulateAutoBuy(positions, m, dt, dc, now)
  /\ sumTokens' = [sumTokens EXCEPT ![TargetOf(positions, m)] = @ + dt]
  /\ sumCost' = [sumCost EXCEPT ![TargetOf(positions, m)] = @ + dc]
  /\ LET due == NowMs + cfg.volumeWindowSeconds * 1000 IN
     probe' = IF SimOnly /\ cfg.simNoFlow
                THEN [probe EXCEPT ![m] =
                        [k \in ProbeIds |->
                           [pc |-> "pending", pos |-> 0,
                            due |-> IF k = 1 THEN due ELSE due + ProbeRetryMs]]]
                ELSE probe
  /\ UNCHANGED <<now, cfg, det, calc, ld, dq, ab, stopFlag, selling, lastSolOut, lastChangeAt, tpc, wakeAt,
                 snap, idx, sell, hist>>

\* Lines 111-131: the timer fired and the reserves were fetched; with an inflow
\* at or under the floor the probe takes positions.get(pk) and, if there is a
\* position, suspends in a second fetchBuyState.
ProbeMeasure(m, k, res) ==
  /\ probe[m][k].pc = "pending"
  /\ NowMs >= probe[m][k].due
  /\ LET pos == get(positions, m) IN
     probe' = [probe EXCEPT ![m][k] =
                 IF res = "lowFlow" /\ pos # 0
                   THEN [@ EXCEPT !.pc = "bs", !.pos = pos]
                   ELSE [@ EXCEPT !.pc = "done"]]
  /\ UNCHANGED <<now, cfg, det, calc, ld, dq, ab, positions, buys, stopFlag, selling, lastSolOut, launched,
                 lastChangeAt, tpc, wakeAt, snap, idx, sell, sumTokens, sumCost, hist>>

\* Lines 131-156: the second fetch answers: the NOFLOW trade is recorded on
\* the held object's tokens and cost and positions.close(pk) is called; a
\* failed fetch only logs.
ProbeClose(m, k, ok, solOut2) ==
  /\ probe[m][k].pc = "bs"
  /\ probe' = [probe EXCEPT ![m][k] = [@ EXCEPT !.pc = "done", !.pos = 0]]
  /\ IF ok
       THEN LET u == probe[m][k].pos
                pos == positions.objs[u]
            IN
            /\ hist' = NoteTrade(Fresh(hist), u, NetTrade("NOFLOW", solOut2, pos))
            /\ positions' = Gc(close(positions, m), TrackerRefs \cup ProbeRefs(probe'))
       ELSE /\ hist' = hist
            /\ positions' = Gc(positions, TrackerRefs \cup ProbeRefs(probe'))
  /\ UNCHANGED <<now, cfg, det, calc, ld, dq, ab, buys, stopFlag, selling, lastSolOut, lastChangeAt, tpc,
                 wakeAt, snap, idx, sell, launched, sumTokens, sumCost>>

\* ---------------------------------------------------------- specification

NoHist ==
  [evalStale |-> FALSE, sellEarly |-> FALSE,
   sellReentered |-> FALSE, tickCut |-> FALSE, halted |-> {},
   lastHalt |-> 0, lastGone |-> 0, lastWait |-> [stage |-> "", res |-> ""],
   lastExit |-> NoExit, simCloses |-> [u \in Uids |-> 0], lastTrade |-> NoTrade]

\* ------------------------------------------ wallet-buy detector (config.ts)

Sigs == 1..(IF MaxSigs > MaxPolled THEN MaxSigs ELSE MaxPolled)
NoEvent == [mint |-> "", blockTime |-> 0, signature |-> 0, tokenDelta |-> 0,
            solCostLamports |-> 0]

\* Lines 292-337: the cost of the buy.  parsedCost is the sum of the wallet's
\* transfers in the inner instructions, its own token account excepted; the
\* fallback is the fall of the wallet's balance, less the fee and less the
\* rent of the token account, each taken off only when the rest is larger.
finalCurveCost(tx) ==
  LET fall == IF tx.preLamports > tx.postLamports
                THEN tx.preLamports - tx.postLamports ELSE 0
      lessFee == IF fall > tx.fee THEN fall - tx.fee ELSE fall
      fallbackCost == IF tx.rent > 0 /\ lessFee > tx.rent THEN lessFee - tx.rent
                      ELSE lessFee
  IN IF tx.parsedCost > 0 THEN tx.parsedCost ELSE fallbackCost

\* Lines 243-350, parseBuyEvent: the event of a transaction of the wallet on
\* the pump program that raised its balance of a mint (tx.mint, none when
\* there is no such mint) and has a positive cost; none for any other.
parseBuyEvent(tx, sig) ==
  IF tx.mint # "" /\ tx.tokenDelta > 0 /\ finalCurveCost(tx) > 0
    THEN [mint |-> tx.mint, blockTime |-> tx.blockTime, signature |-> sig,
          tokenDelta |-> tx.tokenDelta, solCostLamports |-> finalCurveCost(tx)]
    ELSE NoEvent

\* A variant that never evicts.
markProcessedKeepsAll(d, sig) ==
  IF sig \in d.processed THEN d
  ELSE [d EXCEPT !.processed = @ \cup {sig}, !.processedQueue = Append(@, sig)]

\* Lines 375-383.
markProcessed(d, sig) ==
  IF sig \in d.processed THEN d
  ELSE LET q == Append(d.processedQueue, sig) IN
       IF Len(q) > ProcessedCap
         THEN [d EXCEPT !.processed = (@ \cup {sig}) \ {Head(q)},
                        !.processedQueue = Tail(q)]
         ELSE [d EXCEPT !.processed = @ \cup {sig}, !.processedQueue = q]

\* handleSignature without the in-flight check of line 386.
handleSignatureUnguarded(d, sig) ==
  [d EXCEPT !.inFlight = @ \cup {sig}, !.running[sig] = @ + 1]

\* Lines 385-389, handleSignature up to its await: a signature in flight is
\* dropped, any other enters the in-flight set and its transaction is fetched.
handleSignature(d, sig) ==
  IF sig \in d.inFlight THEN d
  ELSE [d EXCEPT !.inFlight = @ \cup {sig}, !.running[sig] = @ + 1]

\* A call of handleSignature by either path, with the history of the call.
deliver(d, sig) ==
  [handleSignature(d, sig) EXCEPT
     !.delivs[sig] = @ + 1,
     !.overlaps[sig] = @ + IF sig \in d.inFlight THEN 1 ELSE 0]

\* Lines 440-450: the poll goes through newOnes oldest first, awaiting each
\* handleSignature; a call that returns at once is followed by the next; at
\* the end the tip moves to the newest listed signature and the loop sleeps.
RECURSIVE pollNext(_)
pollNext(d) ==
  IF d.pending = <<>>
    THEN [d EXCEPT !.tipSig = IF d.newTip # 0 THEN d.newTip ELSE @,
                   !.ppc = "sleep", !.polling = 0, !.newTip = 0]
    ELSE LET sig == Head(d.pending)
             d1 == [d EXCEPT !.pending = Tail(@)]
             d2 == deliver(d1, sig)
         IN IF d2.running[sig] = d1.running[sig]
              THEN pollNext(d2)
              ELSE [d2 EXCEPT !.ppc = "handle", !.polling = sig]

\* Line 428: the newest PollLimit signatures of the wallet, newest first.
getSignaturesForAddress(d) ==
  LET n == Len(d.txs)
      k == IF n < PollLimit THEN n ELSE PollLimit
  IN [i \in 1..k |-> n - i + 1]

\* A variant that does not stop at the tip.
newOnesPastTip(sigs, i, d) ==
  SelectSeq(sigs, LAMBDA s : s \notin d.processed)

\* Lines 434-438: the listed signatures before the tip that are not processed,
\* newest first.
RECURSIVE newOnes(_, _, _)
newOnes(sigs, i, d) ==
  IF i > Len(sigs) \/ sigs[i] = d.tipSig THEN <<>>
  ELSE IF sigs[i] \in d.processed THEN newOnes(sigs, i + 1, d)
  ELSE <<sigs[i]>> \o newOnes(sigs, i + 1, d)

\* The wallet signs a transaction.
NewTx(tx) ==
  /\ Len(det.txs) < (IF det.wsActive THEN MaxSigs ELSE MaxPolled)
  /\ det' = [det EXCEPT !.txs = Append(@, tx)]
  /\ UNCHANGED <<calc, ld, dq, ab, now, cfg, positions, buys, stopFlag, selling, lastSolOut, lastChangeAt,
                 tpc, wakeAt, snap, idx, sell, launched, probe, sumTokens, sumCost, hist>>

\* Lines 411-416, the onLogs callback: a log notification of a successful
\* transaction of the wallet.  The subscription may notify a signature again.
PushDeliver(sig) ==
  /\ det.wsActive /\ ~det.subFailed
  /\ ~det.stopped
  /\ sig \in 1..Len(det.txs)
  /\ det.delivs[sig] < MaxDeliver
  /\ det' = deliver(det, sig)
  /\ UNCHANGED <<calc, ld, dq, ab, now, cfg, positions, buys, stopFlag, selling, lastSolOut, lastChangeAt,
                 tpc, wakeAt, snap, idx, sell, launched, probe, sumTokens, sumCost, hist>>

LedgerTokens(P, m) == IF get(P, m) = 0 THEN 0 ELSE P.objs[get(P, m)].tokens

\* Lines 389-404, handleSignature from the reply of getParsedTransaction: no
\* transaction, a transaction, or a failure; a buy is handed to onBuy and
\* marked processed; the signature leaves the in-flight set in any case.  A
\* handler awaited by the poll loop resumes the loop.
HandleDone(sig, r) ==
  /\ det.running[sig] > 0
  /\ LET evt == IF r = "tx" THEN parseBuyEvent(det.txs[sig], sig) ELSE NoEvent
         emit == evt # NoEvent
         P2 == IF emit THEN onBuy(positions, evt) ELSE positions
         d1 == IF emit THEN markProcessed(det, sig) ELSE det
         d2 == [d1 EXCEPT !.inFlight = @ \ {sig},
                          !.running[sig] = @ - 1,
                          !.emits[sig] = @ + IF emit THEN 1 ELSE 0,
                          !.adds[sig] = @ + LedgerTokens(P2, det.txs[sig].mint)
                                          - LedgerTokens(positions, det.txs[sig].mint)]
         u == TargetOf(positions, evt.mint)
     IN /\ positions' = P2
        /\ det' = IF d2.ppc = "handle" /\ d2.polling = sig THEN pollNext(d2) ELSE d2
        /\ sumTokens' = IF emit THEN [sumTokens EXCEPT ![u] = @ + evt.tokenDelta]
                        ELSE sumTokens
        /\ sumCost' = IF emit THEN [sumCost EXCEPT ![u] = @ + evt.solCostLamports]
                      ELSE sumCost
  /\ UNCHANGED <<calc, ld, dq, ab, now, cfg, buys, stopFlag, selling, lastSolOut, lastChangeAt,
                 tpc, wakeAt, snap, idx, sell, launched, probe, hist>>

\* Lines 428-446, the poll from the reply of getSignaturesForAddress: the
\* first list only sets the tip; a later one hands the new signatures to
\* handleSignature; a failed call goes to the sleep.
PollFetched(ok) ==
  /\ det.ppc = "fetch"
  /\ LET sigs == getSignaturesForAddress(det)
         newest == IF Len(sigs) > 0 THEN sigs[1] ELSE 0
     IN det' = IF ~ok THEN [det EXCEPT !.ppc = "sleep"]
               ELSE IF det.tipSig = 0
                 THEN [det EXCEPT !.tipSig = newest, !.ppc = "sleep"]
               ELSE pollNext([det EXCEPT !.pending = LET q == newOnes(sigs, 1, det)
                                                  IN [i \in 1..Len(q) |-> q[Len(q) - i + 1]],
                                         !.newTip = newest])
  /\ UNCHANGED <<calc, ld, dq, ab, now, cfg, positions, buys, stopFlag, selling, lastSolOut, lastChangeAt,
                 tpc, wakeAt, snap, idx, sell, launched, probe, sumTokens, sumCost, hist>>

\* Lines 426 and 450: the sleep of pollMs ends; a stopped detector leaves the loop.
PollWake ==
  /\ det.ppc = "sleep"
  /\ det' = [det EXCEPT !.ppc = IF det.stopped THEN "off" ELSE "fetch"]
  /\ UNCHANGED <<calc, ld, dq, ab, now, cfg, positions, buys, stopFlag, selling, lastSolOut, lastChangeAt,
                 tpc, wakeAt, snap, idx, sell, launched, probe, sumTokens, sumCost, hist>>

\* Lines 457-460, stop.
DetectorStop ==
  /\ ~det.stopped
  /\ det' = [det EXCEPT !.stopped = TRUE]
  /\ UNCHANGED <<calc, ld, dq, ab, now, cfg, positions, buys, stopFlag, selling, lastSolOut, lastChangeAt,
                 tpc, wakeAt, snap, idx, sell, launched, probe, sumTokens, sumCost, hist>>

\* Lines 368-374, 408-422 and 454: the detector as startBuyDetection leaves
\* it.  Unless the mode is 'poll', connection.onLogs is called; it throws,
\* which is caught and logged, or it returns a subscription id, and wsActive
\* is set at once, whether the subscription is then established over the
\* websocket ("yes") or never is ("never": the client reports that to nobody).
\* The poll loop is started when wsActive is not set or the mode is 'poll'.
\* subFailed and logged are history, and so are the last four fields: calls
\* of handleSignature per signature, calls made while the signature was in
\* flight, events handed to onBuy, and tokens the ledger gained from them.
startBuyDetection(mode, subscribes) ==
  LET wsActive == mode # "poll" /\ subscribes # "throws" IN
  [mode |-> mode, subFailed |-> mode # "poll" /\ subscribes # "yes",
   logged |-> mode # "poll" /\ subscribes = "throws",
   wsActive |-> wsActive,
   stopped |-> FALSE, txs |-> <<>>, tipSig |-> 0,
   inFlight |-> {}, processed |-> {}, processedQueue |-> <<>>,
   running |-> [s \in Sigs |-> 0],
   ppc |-> IF ~wsActive \/ mode = "poll" THEN "fetch" ELSE "off",
   pending |-> <<>>, newTip |-> 0, polling |-> 0,
   delivs |-> [s \in Sigs |-> 0], overlaps |-> [s \in Sigs |-> 0],
   emits |-> [s \in Sigs |-> 0], adds |-> [s \in Sigs |-> 0]]

\* ------------------------------------- the exit policy on chosen inputs

\* Evaluations of the one position over a run.
MaxEvals == 2
\* Amounts are in units of 10^4 lamports, so that 5000 is the 50_000_000
\* lamports and 6750 the 67_500_000 lamports of the take-profit example, and
\* 10000 and 6900 the peak and the quote of the trailing example.
PolicyQuotes == {0, 8, 12, 13, 14, 30, 4000, 6749, 6750, 6900, 7000, 7001, 10000}

\* A position just opened, with the quote its first evaluation will get.
PolicyStart(cost, q) ==
  [pc |-> "ready", cost |-> cost, peak |-> NoPeak, peakBefore |-> NoPeak, out |-> q,
   evals |-> 0, lastOut |-> NoPeak,
   act |-> "", reason |-> "", closed |-> FALSE, complete |-> FALSE]

\* No evaluation on chosen inputs is made.
NoCalc == [PolicyStart(0, 0) EXCEPT !.pc = "off"]

\* One call of evaluatePosition on the position, from the reply of
\* fetchBuyState with the quote (and, possibly, a completed curve) on.
Evaluate(complete) ==
  /\ calc.pc = "ready"
  /\ LET \* The position of the evaluation, past its minimum hold.
         pos == [mint |-> "A", openedAt |-> 0, openedSig |-> 1, tokens |-> 1,
                 costLamports |-> calc.cost, peakSolOut |-> calc.peak]
         P == addBuy(EmptyPositions, pos)
         r == [kind |-> "ok", ata |-> "ok", complete |-> complete, solOut |-> calc.out]
         o == evaluatePosition(P, P.objs[1], r, {}, lastSolOut, lastChangeAt)
     IN calc' = [calc EXCEPT !.pc = "done",
                             !.evals = @ + 1,
                             !.act = o.act,
                             !.reason = o.trade.reason,
                             !.complete = complete,
                             !.closed = ~Live(o.P, 1),
                             !.peakBefore = calc.peak,
                             !.peak = o.P.objs[1].peakSolOut]
  /\ UNCHANGED <<world, ld, dq, ab>>

\* The next tick, with the next quote, for a position still held and not
\* being sold.
NextQuote(q) ==
  /\ calc.pc = "done"
  /\ ~calc.closed
  /\ calc.act = "return"
  /\ calc.evals < MaxEvals
  /\ calc' = [calc EXCEPT !.pc = "ready", !.out = q, !.act = "", !.reason = ""]
  /\ UNCHANGED <<world, ld, dq, ab>>

\* One call of evaluatePosition on a position opened MinHoldMs before the
\* first tick, with the flat-exit maps and the clock of the run: lines 135-396
\* from the reply of fetchBuyState with the quote on.
TickEvaluate ==
  /\ calc.pc = "ready"
  /\ LET pos == [mint |-> "A", openedAt |-> -1, openedSig |-> 1, tokens |-> 1,
                 costLamports |-> calc.cost, peakSolOut |-> calc.peak]
         P == addBuy(EmptyPositions, pos)
         r == [kind |-> "ok", ata |-> "ok", complete |-> FALSE, solOut |-> calc.out]
         o == evaluatePosition(P, P.objs[1], r, {}, lastSolOut, lastChangeAt)
     IN /\ calc' = [calc EXCEPT !.pc = "done",
                                !.evals = @ + 1,
                                !.act = o.act,
                                !.reason = o.trade.reason,
                                !.closed = ~Live(o.P, 1),
                                !.peakBefore = calc.peak,
                                !.peak = o.P.objs[1].peakSolOut]
        /\ lastSolOut' = o.lso
        /\ lastChangeAt' = o.lca
  /\ UNCHANGED <<now, cfg, positions, buys, stopFlag, selling, tpc, wakeAt, snap, idx,
                 sell, det, launched, probe, sumTokens, sumCost, hist, ld, dq, ab>>

\* Lines 520-532: the loop sleeps LoopSleepMs and the position, still held,
\* gets its next quote.
TickSleep(q) ==
  /\ calc.pc = "done"
  /\ ~calc.closed
  /\ calc.act = "return"
  /\ calc.evals < MaxEvals
  /\ now' = now + LoopSleepMs \div 1000
  /\ calc' = [calc EXCEPT !.pc = "ready", !.lastOut = calc.out, !.out = q,
                          !.act = "", !.reason = ""]
  /\ UNCHANGED <<cfg, positions, buys, stopFlag, selling, lastSolOut, lastChangeAt, tpc,
                 wakeAt, snap, idx, sell, det, launched, probe, sumTokens, sumCost, hist,
                 ld, dq, ab>>

\* --------------------- launch detector (startOnchainCreateDetection, part_006)

\* Signatures of transactions that touch the program.
MaxLaunchSigs == 2
LSigs == 1..MaxLaunchSigs

\* Line 128: re-fetches of the raw transaction; line 266: fetches of the
\* parsed one.
RawRetries == 15
ParsedTries == 20

\* Lines 167-168 and 202-203: text is read as base 64, anything else is taken
\* as bytes.  Base-58 text read as base 64 gives other bytes than were encoded.
bufferFrom(d) ==
  IF d.content = "empty" THEN "empty"
  ELSE IF d.enc \in {"bytes", "base64"} THEN d.content
  ELSE "garbled"

\* program.coder.instruction.decode: the instruction's name, or null when no
\* discriminator of the program matches.
instructionDecode(buf) == IF buf \in {"create", "buy"} THEN buf ELSE "null"

\* A compiled instruction: its program; its data as the RPC client hands it
\* over, the bytes themselves (message.compiledInstructions) or text in some
\* encoding; the keys at account positions 0 and 7 ("" when it has no more
\* than 7 accounts or the index has no key); the creator argument of its data
\* ("" when absent).
Ix(program, enc, content, mint, user, creator) ==
  [program |-> program, data |-> [enc |-> enc, content |-> content],
   mint |-> mint, user |-> user, creator |-> creator]

NoDecode == [ok |-> FALSE, creator |-> "", mint |-> "", user |-> ""]

\* A variant of tryDecode that takes the key at position 0 even when undefined.
tryDecodeAnyKey(ix) ==
  IF ix.program = "pump" /\ instructionDecode(bufferFrom(ix.data)) = "create"
    THEN [ok |-> TRUE, creator |-> ix.creator, mint |-> "?", user |-> ix.user]
    ELSE NoDecode

\* Lines 162-194, tryDecode, and the same steps in the top-level loop 198-233.
tryDecode(ix) ==
  IF ix.program # "pump" THEN NoDecode
  ELSE IF bufferFrom(ix.data) = "empty" THEN NoDecode
  ELSE IF instructionDecode(bufferFrom(ix.data)) # "create" THEN NoDecode
  ELSE [ok |-> TRUE, creator |-> ix.creator, mint |-> ix.mint, user |-> ix.user]

RECURSIVE firstCreate(_, _)
\* The decode of the first instruction from index i on that is a create.
firstCreate(ixs, i) ==
  IF i > Len(ixs) THEN NoDecode
  ELSE IF tryDecode(ixs[i]).ok THEN tryDecode(ixs[i])
  ELSE firstCreate(ixs, i + 1)

\* Lines 196-244: top-level instructions first, the inner ones when no create
\* was decoded among them.
searchCreate(raw) ==
  IF firstCreate(raw.top, 1).ok THEN firstCreate(raw.top, 1)
  ELSE firstCreate(raw.inner, 1)

\* Lines 250-262: the mint that occurs most often among the post-transaction
\* token balances, the first such in order of appearance; "" when none.
majority(mints) ==
  LET count(m) == Cardinality({i \in DOMAIN mints : mints[i] = m})
      firsts == {i \in DOMAIN mints :
                   /\ \A j \in DOMAIN mints : count(mints[j]) <= count(mints[i])
                   /\ \A j \in 1..(i - 1) : count(mints[j]) < count(mints[i])}
  IN IF firsts = {} THEN "" ELSE mints[CHOOSE i \in firsts : TRUE]

RECURSIVE firstInit(_, _)
\* Lines 270-285: the first parsed spl-token initialize instruction that names
\* a mint or an account gives the mint, the account standing in for it.
firstInit(inits, i) ==
  IF i > Len(inits) THEN ""
  ELSE IF inits[i].mint # "" THEN inits[i].mint
  ELSE IF inits[i].account # "" THEN inits[i].account
  ELSE firstInit(inits, i + 1)

\* The raw transactions getTransaction may return.
Raw(err, top, inner, postTB) ==
  [metaErr |-> err, top |-> top, inner |-> inner, postTB |-> postTB]

NoRaw == Raw(FALSE, <<>>, <<>>, <<>>)

\* Top level: nothing of the program, an instruction without data and a buy,
\* a buy before a create, a create without creator argument, creates with no
\* usable account list.  The inner instructions of the meta carry their data
\* as base-58 text.
RawTxs ==
  LET buy == Ix("pump", "bytes", "buy", "", "", "") IN
  {Raw(err, top, inner, tb) :
     err \in BOOLEAN,
     top \in {<<>>, <<Ix("other", "bytes", "create", "", "", "")>>,
              <<Ix("pump", "bytes", "empty", "", "", ""), buy>>,
              <<buy, Ix("pump", "bytes", "create", "M", "U", "C")>>,
              <<Ix("pump", "bytes", "create", "M", "U", "")>>,
              <<Ix("pump", "bytes", "create", "", "", "C")>>,
              <<Ix("pump", "bytes", "create", "", "", "")>>},
     inner \in {<<>>, <<Ix("pump", "base58", "buy", "", "", ""),
                        Ix("pump", "base58", "create", "M", "U", "C")>>},
     tb \in {<<>>, <<"">>, <<"M">>, <<"N", "M", "M">>}}

\* What getParsedTransaction may answer: nothing yet, an error, or the parsed
\* transaction, of which the spl-token initialize instructions are kept.
ParsedResults ==
  {[kind |-> "null", inits |-> <<>>], [kind |-> "throw", inits |-> <<>>]}
  \cup {[kind |-> "ok", inits |-> i] :
          i \in {<<>>, <<[mint |-> "", account |-> ""]>>,
                 <<[mint |-> "", account |-> "T"]>>,
                 <<[mint |-> "", account |-> ""], [mint |-> "M", account |-> "T"]>>}}

NoLaunch == [signature |-> 0, mint |-> "", creator |-> ""]

\* Lines 289-300: the event of a decoded create with a mint.
createEvent(sig, d, mint) ==
  [signature |-> sig, mint |-> mint,
   creator |-> IF d.creator # "" THEN d.creator ELSE d.user]

\* One call of handleSignature: where it is suspended, the re-fetches made,
\* and, once the raw transaction is read, the transaction and its decode.
IdleHandler == [pc |-> "idle", attempts |-> 0, raw |-> NoRaw, dec |-> NoDecode,
                logsErr |-> FALSE]

NoLast == [sig |-> 0, raw |-> NoRaw, fetched |-> FALSE, inits |-> <<>>,
           logsErr |-> FALSE, event |-> NoLaunch]

\* The detector after the call: subscribed to the program's logs.  emits,
\* last and dropped are history: calls of onCreate per signature, the
\* handling that ended in the step before, and the signature, a processed
\* one, of the notification that the step before returned on at the entry
\* of handleSignature.
startOnchainCreateDetection ==
  [on |-> TRUE, stopped |-> FALSE, processed |-> {}, inFlight |-> {},
   h |-> [s \in LSigs |-> IdleHandler],
   emits |-> [s \in LSigs |-> 0], last |-> NoLast, dropped |-> 0]

NoLd == [startOnchainCreateDetection EXCEPT !.on = FALSE]

\* A variant whose end of handling leaves the signature in flight when no
\* event was emitted.
endHandlingNoFinally(l, s, ev, fetched, inits) ==
  [l EXCEPT !.inFlight = IF ev # NoLaunch THEN @ \ {s} ELSE @,
            !.processed = IF ev # NoLaunch THEN @ \cup {s} ELSE @,
            !.emits[s] = IF ev # NoLaunch THEN @ + 1 ELSE @,
            !.h[s] = IdleHandler,
            !.dropped = 0,
            !.last = [sig |-> s, raw |-> l.h[s].raw, fetched |-> fetched,
                      inits |-> inits, logsErr |-> l.h[s].logsErr, event |-> ev]]

\* A variant whose end of handling does not record the signature.
endHandlingForgets(l, s, ev, fetched, inits) ==
  [l EXCEPT !.inFlight = @ \ {s},
            !.emits[s] = IF ev # NoLaunch THEN @ + 1 ELSE @,
            !.h[s] = IdleHandler,
            !.dropped = 0,
            !.last = [sig |-> s, raw |-> l.h[s].raw, fetched |-> fetched,
                      inits |-> inits, logsErr |-> l.h[s].logsErr, event |-> ev]]

\* Lines 300-325: handling ends; with an event, onCreate is called and the
\* signature is recorded as processed; the finally clause clears inFlight.
endHandling(l, s, ev, fetched, inits) ==
  [l EXCEPT !.inFlight = @ \ {s},
            !.processed = IF ev # NoLaunch THEN @ \cup {s} ELSE @,
            !.emits[s] = IF ev # NoLaunch THEN @ + 1 ELSE @,
            !.h[s] = IdleHandler,
            !.dropped = 0,
            !.last = [sig |-> s, raw |-> l.h[s].raw, fetched |-> fetched,
                      inits |-> inits, logsErr |-> l.h[s].logsErr, event |-> ev]]

Going(l) == [l EXCEPT !.last = NoLast, !.dropped = 0]

\* Lines 329-332: the filter of the log callback.
logsPass(err, sig, hasCreate) == ~err /\ sig # 0 /\ hasCreate

\* A variant of the outcome check that reads no error from the meta.
metaFailedNever(raw) == FALSE

\* Line 141: raw.meta?.err.
metaFailed(raw) == raw.metaErr

\* Lines 327-336 and 111-115: a log notification; handleSignature runs up to
\* its first await, the wait for the confirmation.
OnLogs(err, sig, hasCreate) ==
  /\ ld.on
  /\ LET l == Going(ld) IN
     ld' = IF ld.stopped \/ ~logsPass(err, sig, hasCreate) THEN l
           ELSE IF sig \in ld.processed THEN [l EXCEPT !.dropped = sig]
           ELSE IF sig \in ld.inFlight THEN l
           ELSE [l EXCEPT !.inFlight = @ \cup {sig},
                          !.h[sig] = [IdleHandler EXCEPT !.pc = "ws", !.logsErr = err]]
  /\ UNCHANGED <<world, calc, dq, ab>>

\* Lines 118-123: the confirmation arrives, or the wait fails or times out.
LdWsDone(s, res) ==
  /\ ld.on /\ ld.h[s].pc = "ws"
  /\ ld' = IF res = "ok" THEN [Going(ld) EXCEPT !.h[s].pc = "raw"]
           ELSE endHandling(ld, s, NoLaunch, FALSE, <<>>)
  /\ UNCHANGED <<world, calc, dq, ab>>

\* Lines 125-287: a reply of getTransaction.  Nothing yet: fetch again after
\* 150 ms, up to RawRetries times.  A transaction: decode it, infer the mint,
\* and either end or go on to fetch the parsed transaction.
LdRawFetched(s, kind, raw) ==
  /\ ld.on /\ ld.h[s].pc = "raw"
  /\ ld' =
       IF kind = "throw" THEN endHandling(ld, s, NoLaunch, FALSE, <<>>)
       ELSE IF kind = "null"
         THEN IF ld.h[s].attempts < RawRetries
                THEN [Going(ld) EXCEPT !.h[s].attempts = @ + 1]
                ELSE endHandling(ld, s, NoLaunch, FALSE, <<>>)
       ELSE
         LET l == [ld EXCEPT !.h[s].raw = raw]
             d == searchCreate(raw)
             m == IF d.mint # "" THEN d.mint ELSE majority(raw.postTB)
         IN IF metaFailed(raw) THEN endHandling(l, s, NoLaunch, TRUE, <<>>)
            ELSE IF ~d.ok THEN endHandling(l, s, NoLaunch, TRUE, <<>>)
            ELSE IF m # "" THEN endHandling(l, s, createEvent(s, d, m), TRUE, <<>>)
            ELSE [Going(l) EXCEPT !.h[s].pc = "parsed", !.h[s].attempts = 1,
                                  !.h[s].dec = d]
  /\ UNCHANGED <<world, calc, dq, ab>>

\* Lines 264-300: a reply of getParsedTransaction.
LdParsedFetched(s, p) ==
  /\ ld.on /\ ld.h[s].pc = "parsed"
  /\ ld' =
       IF p.kind = "null" /\ ld.h[s].attempts < ParsedTries
         THEN [Going(ld) EXCEPT !.h[s].attempts = @ + 1]
       ELSE
         LET m == IF p.kind = "ok" THEN firstInit(p.inits, 1) ELSE ""
         IN IF m # "" THEN endHandling(ld, s, createEvent(s, ld.h[s].dec, m), TRUE, p.inits)
            ELSE endHandling(ld, s, NoLaunch, TRUE, p.inits)
  /\ UNCHANGED <<world, calc, dq, ab>>

\* Lines 339-344: stop().
LdStop ==
  /\ ld.on /\ ~ld.stopped
  /\ ld' = [Going(ld) EXCEPT !.stopped = TRUE]
  /\ UNCHANGED <<world, calc, dq, ab>>

\* ------------------------------------ decision queue (index.ts, processQueue)

\* Launch events handed to onCreate over a run.
MaxCands == 3

\* config.ts lines 169-170: maxCreateAgeMs and minBuyGapMs.
MaxCreateAgeMs == 8000
MinBuyGapMs == 1500

\* Date.now() at start-up, the origin of the model's clock: lastBuyAtMs
\* starts at 0 (line 88), that long before.
StartedAtMs == 1000000

\* The queue after start-up.  runs holds the calls of processQueue that are
\* suspended at an await, each with its candidate; lastEnd, started and
\* arrivals are history: when the last entry attempt ended (-1: none yet), how
\* many candidates were dequeued, how many events arrived.
NoDq == [on |-> FALSE, conf |-> [entry |-> "none", funderCheck |-> FALSE],
         masterQueue |-> <<>>, queuedMints |-> {}, processing |-> FALSE,
         lastBuyAtMs |-> -StartedAtMs, runs |-> <<>>,
         lastEnd |-> -1, arrivals |-> 0]

\* A variant that takes every candidate for new.
ageMsZero(evt) == 0

\* Lines 180-181: the age of a candidate at dequeue time.
ageMs(evt) == NowMs - (IF evt.blockTime # 0 THEN evt.blockTime * 1000 ELSE NowMs)

\* A call of processQueue suspended at an await, with its candidate;
\* dequeuedAt, startedAt and prevEnd are history.
Run(evt) == [evt |-> evt, pc |-> "enrich", hardFails |-> FALSE, due |-> 0,
             dequeuedAt |-> NowMs, startedAt |-> 0, prevEnd |-> -1]

\* A variant of the finally clause that does not start the next candidate.
finallyResting(d) == [d EXCEPT !.processing = FALSE]

RECURSIVE processQueue(_), finally(_)

\* A variant of processQueue without the check of the processing flag.
processQueueUnguarded(d) ==
  IF d.masterQueue = <<>> THEN d
  ELSE LET evt == Head(d.masterQueue)
           d1 == [d EXCEPT !.processing = TRUE, !.masterQueue = Tail(@),
                           !.queuedMints = @ \ {evt.mint}]
       IN IF ageMs(evt) > MaxCreateAgeMs THEN finally(d1)
          ELSE [d1 EXCEPT !.runs = Append(@, Run(evt))]

\* Lines 172-186: processQueue up to its first await.  It returns at once
\* while a candidate is being processed or when the queue is empty; a stale
\* candidate is skipped, which runs the finally clause in the same step.
processQueue(d) ==
  IF d.processing THEN d
  ELSE IF d.masterQueue = <<>> THEN d
  ELSE LET evt == Head(d.masterQueue)
           d1 == [d EXCEPT !.processing = TRUE, !.masterQueue = Tail(@),
                           !.queuedMints = @ \ {evt.mint}]
       IN IF ageMs(evt) > MaxCreateAgeMs THEN finally(d1)
          ELSE [d1 EXCEPT !.runs = Append(@, Run(evt))]

\* Lines 292-295: the finally clause.
finally(d) ==
  LET d1 == [d EXCEPT !.processing = FALSE]
  IN IF d1.masterQueue # <<>> THEN processQueue(d1) ELSE d1

\* The call of processQueue that run i belongs to is over.
EndRun(d, i) ==
  finally([d EXCEPT !.runs = [j \in 1..(Len(@) - 1) |-> IF j < i THEN @[j] ELSE @[j + 1]]])

\* A variant of the cooldown that never waits.
waitMsNone(gap) == 0

\* Line 265: the cooldown left, given the time since the last entry attempt.
waitMs(gap) == IF MinBuyGapMs > gap THEN MinBuyGapMs - gap ELSE 0

\* Lines 347-362: onCreate enqueues the event unless its mint is queued, and
\* calls processQueue.  blockTime 0 stands for an event without block time.
OnCreate(m, bt) ==
  /\ dq.on /\ dq.arrivals < MaxCands
  /\ LET evt == [mint |-> m, blockTime |-> bt, id |-> dq.arrivals + 1]
         d == [dq EXCEPT !.arrivals = @ + 1]
     IN dq' = IF m \in dq.queuedMints THEN d
              ELSE processQueue([d EXCEPT !.queuedMints = @ \cup {m},
                                          !.masterQueue = Append(@, evt)])
  /\ UNCHANGED <<world, calc, ld, ab>>

\* Line 187: fetchJsonMetadata returns (it catches its own errors).
QEnriched(i) ==
  /\ dq.on /\ i \in DOMAIN dq.runs /\ dq.runs[i].pc = "enrich"
  /\ dq' = [dq EXCEPT !.runs[i].pc = "social"]
  /\ UNCHANGED <<world, calc, ld, ab>>

\* Lines 206-218: checkSocial returns; with the first-time-creator check the
\* candidate has a hard fail or goes on to the creator's initial buy.
QSocialDone(i, pass, firstTime) ==
  /\ dq.on /\ i \in DOMAIN dq.runs /\ dq.runs[i].pc = "social"
  /\ dq' = IF pass /\ firstTime
             THEN [dq EXCEPT !.runs[i].pc = "initialBuy"]
             ELSE [dq EXCEPT !.runs[i].pc = "baseline", !.runs[i].hardFails = TRUE]
  /\ UNCHANGED <<world, calc, ld, ab>>

\* Lines 221-237: computeCreatorInitialBuyLamports returns; the funder check
\* follows when it is configured and nothing failed.
QInitialBuyDone(i, tooLarge) ==
  /\ dq.on /\ i \in DOMAIN dq.runs /\ dq.runs[i].pc = "initialBuy"
  /\ dq' = IF tooLarge
             THEN [dq EXCEPT !.runs[i].pc = "baseline", !.runs[i].hardFails = TRUE]
           ELSE IF dq.conf.funderCheck THEN [dq EXCEPT !.runs[i].pc = "funder"]
           ELSE [dq EXCEPT !.runs[i].pc = "baseline"]
  /\ UNCHANGED <<world, calc, ld, ab>>

\* Lines 230-237: findFunderOneHop returns.
QFunderDone(i, funderKnown) ==
  /\ dq.on /\ i \in DOMAIN dq.runs /\ dq.runs[i].pc = "funder"
  /\ dq' = [dq EXCEPT !.runs[i].pc = "baseline", !.runs[i].hardFails = funderKnown]
  /\ UNCHANGED <<world, calc, ld, ab>>

\* A gate throws: processQueue has no catch, the finally clause runs.
QGateThrows(i) ==
  /\ dq.on /\ i \in DOMAIN dq.runs /\ dq.runs[i].pc \in {"social", "initialBuy", "funder"}
  /\ dq' = EndRun(dq, i)
  /\ UNCHANGED <<world, calc, ld, ab>>

\* The entry attempt of run i begins: attemptAutoBuy or simulateAutoBuy is
\* called.
BeginEntry(d, i) ==
  [d EXCEPT !.runs[i].pc = "buy", !.runs[i].startedAt = NowMs,
            !.runs[i].prevEnd = d.lastEnd]

\* Lines 260-266: recordLaunchBaselineAndSchedule returns or throws; without
\* a hard fail and with an entry configured the cooldown is computed and
\* either waited for or the entry attempt begins.
QBaselineDone(i) ==
  /\ dq.on /\ i \in DOMAIN dq.runs /\ dq.runs[i].pc = "baseline"
  /\ dq' = IF dq.runs[i].hardFails \/ dq.conf.entry = "none" THEN EndRun(dq, i)
           ELSE IF waitMs(NowMs - dq.lastBuyAtMs) > 0
             THEN [dq EXCEPT !.runs[i].pc = "gapWait",
                             !.runs[i].due = NowMs + waitMs(NowMs - dq.lastBuyAtMs)]
           ELSE BeginEntry(dq, i)
  /\ UNCHANGED <<world, calc, ld, ab>>

\* Line 266: the cooldown timer fires.
QGapElapsed(i) ==
  /\ dq.on /\ i \in DOMAIN dq.runs /\ dq.runs[i].pc = "gapWait"
  /\ NowMs >= dq.runs[i].due
  /\ dq' = BeginEntry(dq, i)
  /\ UNCHANGED <<world, calc, ld, ab>>

\* Lines 267-290: the entry attempt returns or throws; lastBuyAtMs is set
\* either way, and the finally clause runs.
QBuyDone(i, ok) ==
  /\ dq.on /\ i \in DOMAIN dq.runs /\ dq.runs[i].pc = "buy"
  /\ dq' = EndRun([dq EXCEPT !.lastBuyAtMs = NowMs, !.lastEnd = NowMs], i)
  /\ UNCHANGED <<world, calc, ld, ab>>

\* --------------------------------------------- attemptAutoBuy (part_000)

\* Entry attempts over a run.
MaxEntries == 2

\* A signed transaction: what it does and which fetched blockhash it carries.
Tx(kind, bh) == [kind |-> kind, bh |-> bh]

\* One call of attemptAutoBuy: where it is suspended, blockhashes fetched so
\* far, and what it has submitted: bundles (each a list of transactions) with
\* the reply to the last, and plain submissions.  entries counts the calls.
NoAb == [on |-> FALSE, conf |-> [jitoEnabled |-> FALSE, tipAccount |-> FALSE, jsonRpc |-> FALSE],
         pc |-> "idle", mint |-> "", fetched |-> 0, bundles |-> <<>>, bundleRes |-> "",
         plain |-> <<>>, fresh |-> FALSE, entries |-> 0]

\* A variant in which an accepted bundle is followed by the plain submission.
afterBundleNoReturn(res) == "blockhash"

\* Lines 141-157: an accepted bundle ends the call; a bundle that is not
\* accepted, or a sender that throws, leads on to the fallback.
afterBundle(res) == IF res = "ok" THEN "done" ELSE "blockhash"

\* Lines 46-100: attemptAutoBuy is called and suspends while it reads the
\* market state and builds the buy instructions.
AbCall(m) ==
  /\ ab.on /\ ab.pc \in {"idle", "done"} /\ ab.entries < MaxEntries
  /\ ab' = [ab EXCEPT !.pc = "build", !.mint = m, !.fetched = 0, !.bundles = <<>>,
                      !.bundleRes = "", !.plain = <<>>, !.fresh = FALSE,
                      !.entries = @ + 1]
  /\ UNCHANGED <<world, calc, ld, dq>>

\* Lines 101-140: the blockhash arrives and the buy transaction is signed;
\* with bundling on and a tip account the tip transaction is built on the
\* same blockhash and the bundle is submitted; otherwise the fallback follows.
\* An error before that leaves the call.
AbBuilt(ok) ==
  /\ ab.on /\ ab.pc = "build"
  /\ ab' = IF ~ok THEN [ab EXCEPT !.pc = "done"]
           ELSE IF ab.conf.jitoEnabled /\ ab.conf.tipAccount
             THEN [ab EXCEPT !.pc = "bundle", !.fetched = 1,
                             !.bundles = Append(@, <<Tx("buy", 1), Tx("tip", 1)>>)]
           ELSE [ab EXCEPT !.pc = "blockhash", !.fetched = 1]
  /\ UNCHANGED <<world, calc, ld, dq>>

\* Lines 141-157: the reply of sendBundleJsonRpc or sendBundleJito.
AbBundleDone(res) ==
  /\ ab.on /\ ab.pc = "bundle"
  /\ ab' = [ab EXCEPT !.pc = afterBundle(res), !.bundleRes = res]
  /\ UNCHANGED <<world, calc, ld, dq>>

\* Lines 163-178: the fallback's blockhash arrives, the buy is rebuilt on it
\* and handed to sendRawTransaction; an error ends the call.
AbBlockhashDone(ok) ==
  /\ ab.on /\ ab.pc = "blockhash"
  /\ ab' = IF ok
             THEN [ab EXCEPT !.pc = "send", !.fetched = @ + 1, !.fresh = TRUE,
                             !.plain = Append(@, <<Tx("buy", ab.fetched + 1)>>)]
             ELSE [ab EXCEPT !.pc = "done"]
  /\ UNCHANGED <<world, calc, ld, dq>>

\* Lines 173-186: sendRawTransaction returns the signature or throws.
AbSendDone(ok) ==
  /\ ab.on /\ ab.pc = "send"
  /\ ab' = [ab EXCEPT !.pc = IF ok THEN "wait" ELSE "done"]
  /\ UNCHANGED <<world, calc, ld, dq>>

\* Lines 181-196: the wait for the processed status ends, by notification or
\* by time-out; the confirmed status is awaited in the background.
AbWaitDone ==
  /\ ab.on /\ ab.pc = "wait"
  /\ ab' = [ab EXCEPT !.pc = "done"]
  /\ UNCHANGED <<world, calc, ld, dq>>


\* The process after start-up: the ledger empty, the tracker about to take its
\* first tick.
Start ==
  /\ now = 1
  /\ positions = EmptyPositions
  /\ buys = 0
  /\ stopFlag = FALSE
  /\ selling = {}
  /\ lastSolOut = [m \in Mints |-> -1]
  /\ lastChangeAt = [m \in Mints |-> -1]
  /\ tpc = "sleep"
  /\ wakeAt = 0
  /\ snap = <<>>
  /\ idx = 0
  /\ sell = NoSell
  /\ launched = [m \in Mints |-> FALSE]
  /\ probe = [m \in Mints |-> [k \in ProbeIds |-> [pc |-> "none", due |-> 0, pos |-> 0]]]
  /\ sumTokens = [u \in Uids |-> 0]
  /\ sumCost = [u \in Uids |-> 0]
  /\ hist = NoHist

\* Live selling: the tracker, its sell submissions, and the wallet's buys.
Init ==
  /\ cfg \in LiveConfigs
  /\ det = startBuyDetection("auto", "yes")
  /\ calc = NoCalc /\ ld = NoLd /\ dq = NoDq /\ ab = NoAb
  /\ Start

Next ==
  \/ Tick
  \/ Stop
  \/ LoopWake
  \/ \E r \in FetchResults : EvalFetched(r)
  \/ \E ok \in BOOLEAN : SellIxDone(ok)
  \/ \E ok \in BOOLEAN : BlockhashDone(ok)
  \/ \E ok \in BOOLEAN : SendDone(ok)
  \/ \E res \in WaitResults : WaitProcessedDone(res)
  \/ \E res \in WaitResults : WaitConfirmedDone(res)
  \/ \E m \in Mints, a \in BuyAmounts, bt \in BlockTimes :
        BuyArrives(m, a[1], a[2], bt)

Spec == Init /\ [][Next]_vars

\* Selling disabled (dry run and simulation): the tracker, the wallet's buys,
\* the simulated entries of the decision queue and their no-inflow probes.
InitSim ==
  /\ cfg \in SimConfigs
  /\ det = startBuyDetection("auto", "yes")
  /\ calc = NoCalc /\ ld = NoLd /\ dq = NoDq /\ ab = NoAb
  /\ Start

NextSim ==
  \/ Tick
  \/ LoopWake
  \/ \E r \in FetchResults : EvalFetched(r)
  \/ \E m \in Mints, a \in BuyAmounts, bt \in BlockTimes :
        BuyArrives(m, a[1], a[2], bt)
  \/ \E m \in Mints, a \in BuyAmounts : SimLaunch(m, a[1], a[2])
  \/ \E m \in Mints, k \in ProbeIds, res \in {"lowFlow", "flow", "error"} :
        ProbeMeasure(m, k, res)
  \/ \E m \in Mints, k \in ProbeIds, ok \in BOOLEAN, q \in Quotes :
        ProbeClose(m, k, ok, q)

SpecSim == InitSim /\ [][NextSim]_vars

\* The wallet-buy detector feeding the ledger, in each of its two ways of
\* running: subscribed, or polling.
InitDetect ==
  /\ cfg \in {MkCfg(FALSE, FALSE, "fixed", 0, 0, FALSE)}
  /\ det \in {startBuyDetection(mode, "yes") : mode \in {"auto", "poll"}}
  /\ calc = NoCalc /\ ld = NoLd /\ dq = NoDq /\ ab = NoAb
  /\ Start

NextDetect ==
  \* The wallet may sign a buy of a mint on the pump program, or anything else.
  \/ \E tx \in {[mint |-> m, blockTime |-> 0, tokenDelta |-> 1, parsedCost |-> 10,
                   preLamports |-> 100, postLamports |-> 85, fee |-> 5, rent |-> 0] :
                  m \in Mints}
               \cup {[mint |-> "", blockTime |-> 0, tokenDelta |-> 0, parsedCost |-> 0,
                      preLamports |-> 100, postLamports |-> 95, fee |-> 5, rent |-> 0]} :
        NewTx(tx)
  \/ \E sig \in Sigs : PushDeliver(sig)
  \/ \E sig \in Sigs, r \in {"null", "tx", "throw"} : HandleDone(sig, r)
  \/ \E ok \in BOOLEAN : PollFetched(ok)
  \/ PollWake
  \/ DetectorStop

SpecDetect == InitDetect /\ [][NextDetect]_vars

\* parseBuyEvent on chosen transactions of the wallet on the pump program:
\* with and without a gain of tokens, with and without parsed transfers, the
\* balance unchanged, raised, or lowered by the fee, by fee and rent, or by more.
InitParse ==
  /\ cfg \in {MkCfg(FALSE, FALSE, "fixed", 0, 0, FALSE)}
  /\ det = startBuyDetection("auto", "yes")
  /\ calc \in {[pc |-> "ready", evt |-> NoEvent, ledger |-> 0,
                 tx |-> [mint |-> "A", blockTime |-> 0, tokenDelta |-> d, parsedCost |-> t,
                         preLamports |-> 100, postLamports |-> post, fee |-> f,
                         rent |-> r]] :
                d \in {0, 1}, t \in {0, 10}, post \in {120, 100, 95, 93, 83},
                f \in {0, 5}, r \in {0, 2}}
  /\ ld = NoLd /\ dq = NoDq /\ ab = NoAb
  /\ Start

\* Lines 394-400: the fetched transaction is parsed and an event is handed to
\* onBuy; ledger counts the positions after it.
ParseTx ==
  /\ calc.pc = "ready"
  /\ LET evt == parseBuyEvent(calc.tx, 1)
         P == IF evt # NoEvent THEN onBuy(EmptyPositions, evt) ELSE EmptyPositions
     IN calc' = [calc EXCEPT !.pc = "parsed", !.evt = evt, !.ledger = Len(P.byMint)]
  /\ UNCHANGED <<world, ld, dq, ab>>

SpecParse == InitParse /\ [][ParseTx]_vars

\* The buy detector started in each mode, with the subscription established,
\* refused at the call, or never established after it.
InitStart ==
  /\ cfg \in {MkCfg(FALSE, FALSE, "fixed", 0, 0, FALSE)}
  /\ det \in {startBuyDetection(mode, subscribes) :
               mode \in {"auto", "ws", "poll"}, subscribes \in {"yes", "throws", "never"}}
  /\ calc = NoCalc /\ ld = NoLd /\ dq = NoDq /\ ab = NoAb
  /\ Start

SpecStart == InitStart /\ [][NextDetect]_vars

\* The detector late in a long run: the processed set holds the signatures of
\* the buys emitted so far (numbered -1, -2, ... from the oldest on), as many
\* as its capacity or a few less.
InitLong ==
  /\ cfg \in {MkCfg(FALSE, FALSE, "fixed", 0, 0, FALSE)}
  /\ det \in {[startBuyDetection(mode, "yes") EXCEPT
                 !.processedQueue = [i \in 1..n |-> -i],
                 !.processed = {-i : i \in 1..n}] :
              mode \in {"auto", "poll"}, n \in (ProcessedCap - 2)..ProcessedCap}
  /\ calc = NoCalc /\ ld = NoLd /\ dq = NoDq /\ ab = NoAb
  /\ Start

SpecLong == InitLong /\ [][NextDetect]_vars

\* ------------------------------------------------------------- properties

\* The mints of the stored positions, in map order.
StoredMints(P) == [i \in 1..Len(P.byMint) |-> P.objs[P.byMint[i]].mint]

\* C1: buys of one asset with no close between them leave exactly one
\* position for the asset, whose tokens and costLamports are the sums of the
\* buys' token deltas and costs; no buy overwrites what the earlier ones left.
C1_BuysAccumulate ==
  /\ \A i, j \in 1..Len(positions.byMint) :
       StoredMints(positions)[i] = StoredMints(positions)[j] => i = j
  /\ \A u \in Uids :
       Live(positions, u) =>
         /\ positions.objs[u].tokens = sumTokens[u]
         /\ positions.objs[u].costLamports = sumCost[u]

\* Two buys of different sizes were accumulated into one stored position.
C1_TwoBuysInOnePosition ==
  \E u \in Uids :
    /\ Live(positions, u)
    /\ positions.objs[u].tokens = 3
    /\ positions.objs[u].costLamports = 40

\* C2: a signature in the processed set was handed to onBuy once, and the
\* ledger gained its token delta once, however often it was delivered.
C2_ProcessedSignatureCountsOnce ==
  \A sig \in det.processed :
    /\ det.emits[sig] = 1
    /\ det.adds[sig] = det.txs[sig].tokenDelta

C4_OneExitInFlight ==
  /\ ~hist.sellReentered
  /\ tpc \in SellPcs => sell.mint \in selling /\ Cardinality(selling) = 1
  /\ tpc \notin SellPcs => sell = NoSell

\* An exit attempt has a transaction submitted and awaits its confirmation.
C4_ExitInFlight ==
  /\ tpc = "waitConfirmed"
  /\ sell.subs >= 1
  /\ sell.mint \in selling

\* C5: an exit attempt in which one confirmation wait timed out and which
\* ended confirmed, with no on-chain error reported, submitted exactly two
\* transactions and left the position removed.
C5_TimeoutThenConfirmed ==
  (hist.lastExit.result = "ok" /\ hist.lastExit.timeouts = 1 /\ hist.lastExit.errAt = 0) =>
    /\ hist.lastExit.subs = 2
    /\ ~hist.lastExit.live

\* The attempt ended confirmed after one timeout.
C5_ResubmittedAndClosed ==
  /\ hist.lastExit.result = "ok"
  /\ hist.lastExit.timeouts = 1
  /\ hist.lastExit.errAt = 0
  /\ hist.lastExit.subs = 2

\* A step of the sell path: the tracker was inside sellAll and moved.
SellStep == tpc \in SellPcs /\ (tpc' # tpc \/ sell' # sell)

\* C6: a step of the sell path changes the stored positions only when the
\* 'confirmed' wait of a submitted transaction settled without error; a step
\* that ends the attempt in failure leaves the position stored, with its
\* tokens, costLamports and peak as they were.
C6_CloseOnlyOnConfirmed ==
  [][SellStep =>
       /\ positions'.byMint # positions.byMint =>
            /\ tpc = "waitConfirmed"
            /\ sell.subs >= 1
            /\ hist'.lastWait = [stage |-> "confirmed", res |-> "ok"]
       /\ hist'.lastExit.result = "fail" =>
            /\ Live(positions', sell.uid)
            /\ positions'.objs[sell.uid] = positions.objs[sell.uid]]_vars

\* An exit attempt failed after a submission and its position is still stored.
C6_FailedWithPositionKept ==
  /\ hist.lastExit.result = "fail"
  /\ hist.lastExit.subs >= 1
  /\ hist.lastExit.live

\* C7: once a confirmation wait reported an on-chain error, the attempt
\* submits no further transaction.
C7_NoSubmissionAfterOnChainError ==
  sell.errAt # 0 => sell.subs = sell.errAt

\* C8: evaluatePosition never goes on to evaluate a position object that is
\* no longer stored in the ledger.
C8_NoEvaluationAfterRemoval == ~hist.evalStale

\* C9: sellAll is never entered at a time earlier than openedAt*1000 +
\* minHoldMs of the position it sells.
C9_NoExitBeforeMinHold == ~hist.sellEarly

\* C10: the peakSolOut of a stored position never decreases, and once set is
\* never unset, as long as the position stays stored.
C10_PeakNeverDecreases ==
  [][\A u \in Uids :
       Live(positions, u) /\ Live(positions', u) =>
         positions'.objs[u].peakSolOut >= positions.objs[u].peakSolOut]_vars

\* A trailing exit fired: the quote came in below the peak recorded earlier.
C10_QuoteFellBelowPeak ==
  /\ cfg.sellStrategy = "trailing"
  /\ hist.lastTrade.reason = "TSL"

\* One position under the exit policy, on chosen costs and quotes.
InitPolicy ==
  /\ cfg \in LiveConfigs \cup SimConfigs
  /\ det = startBuyDetection("auto", "yes")
  /\ calc \in {PolicyStart(c, q) : c \in {0, 10, 30, 5000}, q \in PolicyQuotes}
  /\ ld = NoLd /\ dq = NoDq /\ ab = NoAb
  /\ Start

NextPolicy ==
  \/ \E complete \in BOOLEAN : Evaluate(complete)
  \/ \E q \in PolicyQuotes : NextQuote(q)

SpecPolicy == InitPolicy /\ [][NextPolicy]_vars

\* One position in simulation with the time limit or the flat exit switched
\* on, evaluated tick after tick on chosen costs and quotes.
InitTicks ==
  /\ cfg \in {MkCfg(FALSE, TRUE, st, ttl, 1 - ttl \div 3000, FALSE) :
                st \in Strategies, ttl \in {0, 3000}}
  /\ det = startBuyDetection("auto", "yes")
  /\ calc \in {PolicyStart(c, q) : c \in {0, 10, 30, 5000}, q \in PolicyQuotes}
  /\ ld = NoLd /\ dq = NoDq /\ ab = NoAb
  /\ Start

NextTicks ==
  \/ TickEvaluate
  \/ \E q \in PolicyQuotes : TickSleep(q)

SpecTicks == InitTicks /\ [][NextTicks]_vars

\* C11: under the fixed policy an evaluation exits exactly when the PnL is at
\* or above the take-profit or at or below the stop-loss, the PnL being
\* (proceeds - cost) * 10000 over cost cut to an integer (no exit on a zero
\* cost); the recorded reason is TP when the take-profit is reached and SL
\* otherwise.
C11_FixedTrigger ==
  (calc.pc = "done" /\ cfg.sellStrategy = "fixed" /\ ~calc.complete
     /\ (cfg.sellEnabled \/ SimOnly)) =>
    LET tp == calc.cost > 0 /\ (calc.out - calc.cost) * 10000 >= TpBps * calc.cost
        sl == calc.cost > 0 /\ (calc.out - calc.cost) * 10000 <= SlBps * calc.cost
    IN IF cfg.sellEnabled
         THEN (calc.act = "sell") <=> (tp \/ sl)
         ELSE /\ (calc.reason \in {"TP", "SL"}) <=> (tp \/ sl)
              /\ (calc.reason = "TP") <=> tp
              /\ (calc.reason \in {"TP", "SL"}) => calc.closed

\* The take-profit example: cost 50_000_000, quote 67_500_000, exit with TP.
C11_TakeProfitExample ==
  /\ calc.pc = "done"
  /\ cfg.sellStrategy = "fixed"
  /\ SimOnly
  /\ calc.cost = 5000
  /\ calc.out = 6750
  /\ calc.reason = "TP"

\* C12: under the trailing policy an evaluation whose quote does not exceed
\* the stored peak exits with a trailing stop exactly when the quote is at or
\* below peak * (10000 - trailingBps) / 10000.
C12_TrailingTrigger ==
  (calc.pc = "done" /\ cfg.sellStrategy = "trailing" /\ ~calc.complete
     /\ calc.peakBefore # NoPeak /\ calc.out <= calc.peakBefore
     /\ (cfg.sellEnabled \/ SimOnly)) =>
    LET hit == calc.out * 10000 <= calc.peakBefore * (10000 - TrailingSlBps)
    IN IF cfg.sellEnabled
         THEN (calc.act = "sell") <=> hit
         ELSE /\ (calc.reason = "TSL") <=> hit
              /\ calc.reason = "TSL" => calc.closed

\* The trailing example: the peak reached 100_000_000 and the next tick's
\* quote of 69_000_000 is sold on.
C12_TrailingExample ==
  /\ calc.pc = "done"
  /\ cfg.sellStrategy = "trailing"
  /\ cfg.sellEnabled
  /\ calc.peakBefore = 10000
  /\ calc.out = 6900
  /\ calc.act = "sell"

\* C13: an evaluation that fails does not end the tick before the other
\* positions of the tick that are past their hold were evaluated.
C13_FailureLeavesTickWhole == ~hist.tickCut

\* Live selling next to simulation, for the handling of a completed curve.
InitHalt ==
  /\ cfg \in LiveConfigs \cup {MkCfg(FALSE, TRUE, st, 0, 0, FALSE) : st \in Strategies}
  /\ det = startBuyDetection("auto", "yes")
  /\ calc = NoCalc /\ ld = NoLd /\ dq = NoDq /\ ab = NoAb
  /\ Start

SpecHalt == InitHalt /\ [][Next]_vars

\* C14: a position whose evaluation read a completed (halted, migrated) curve
\* is out of the ledger from that step on and no exit attempt is ever made
\* for it; in simulation that step records one closed trade with reason HALT
\* and the fee-netted proceeds, with selling enabled it records nothing.
C14_HaltedDroppedUnsold ==
  /\ \A u \in hist.halted :
       /\ ~Live(positions, u)
       /\ sell.uid # u
       /\ hist.simCloses[u] = IF SimOnly THEN 1 ELSE 0
  /\ hist.lastHalt # 0 =>
       IF SimOnly THEN hist.lastTrade.reason = "HALT" ELSE hist.lastTrade = NoTrade

C14_HaltRecordedInSimulation ==
  hist.lastHalt # 0 /\ SimOnly /\ hist.lastTrade.reason = "HALT"

InitLaunch ==
  /\ cfg = MkCfg(TRUE, FALSE, "trailing", 0, 0, FALSE)
  /\ det = startBuyDetection("auto", "yes")
  /\ calc = NoCalc /\ dq = NoDq /\ ab = NoAb
  /\ ld = startOnchainCreateDetection
  /\ Start

NextLaunch ==
  \/ \E err \in BOOLEAN, sig \in LSigs \cup {0}, hasCreate \in BOOLEAN :
        OnLogs(err, sig, hasCreate)
  \/ \E s \in LSigs, res \in {"ok", "err", "timeout"} : LdWsDone(s, res)
  \/ \E s \in LSigs : LdRawFetched(s, "throw", NoRaw)
  \/ \E s \in LSigs : LdRawFetched(s, "null", NoRaw)
  \/ \E s \in LSigs, raw \in RawTxs : LdRawFetched(s, "ok", raw)
  \/ \E s \in LSigs, p \in ParsedResults : LdParsedFetched(s, p)
  \/ LdStop

SpecLaunch == InitLaunch /\ [][NextLaunch]_vars

\* The identifiers a handled transaction offers for the mint: the key at
\* position 0 of a create instruction, the mints of the post-transaction token
\* balances, the mint or account of a parsed initialize instruction.
Range(q) == {q[i] : i \in DOMAIN q}

MintSources(raw, inits) ==
  ({ix.mint : ix \in {x \in Range(raw.top) \cup Range(raw.inner) :
                        x.program = "pump" /\ x.data.content = "create"}}
     \cup Range(raw.postTB)
     \cup {i.mint : i \in Range(inits)} \cup {i.account : i \in Range(inits)}) \ {""}

\* C15: an event handed to onCreate carries a non-empty mint, one obtained
\* from the create instruction's accounts, from the post-transaction token
\* balances or from the parsed inner instructions; the handling of a
\* transaction that offers none of these ends without an event.
C15_EventCarriesMint ==
  ld.last.sig # 0 =>
    /\ ld.last.event # NoLaunch =>
         /\ ld.last.event.signature = ld.last.sig
         /\ ld.last.event.mint # ""
         /\ ld.last.event.mint \in MintSources(ld.last.raw, ld.last.inits)
    /\ MintSources(ld.last.raw, ld.last.inits) = {} => ld.last.event = NoLaunch

C15_CreateWithoutMint ==
  /\ ld.last.sig # 0 /\ ld.last.event = NoLaunch
  /\ ~ld.last.raw.metaErr
  /\ searchCreate(ld.last.raw).ok
  /\ ld.last.inits = <<[mint |-> "", account |-> ""]>>

\* C16: the handling of a successful transaction whose create instruction is
\* among the inner instructions only, with the mint at its account position 0,
\* ends with exactly one event.
C16_InnerCreateEmits ==
  (/\ ld.last.sig # 0 /\ ld.last.fetched /\ ~ld.last.raw.metaErr
   /\ \A ix \in Range(ld.last.raw.top) : ~(ix.program = "pump" /\ ix.data.content = "create")
   /\ \E ix \in Range(ld.last.raw.inner) :
        ix.program = "pump" /\ ix.data.content = "create" /\ ix.mint # "") =>
    /\ ld.last.event # NoLaunch
    /\ ld.emits[ld.last.sig] = 1

\* C17: no event is handed to onCreate for a transaction that failed: not when
\* the log notification carried an error, not when the fetched transaction's
\* meta has one.
C17_NoEventForFailedTx ==
  ld.last.event # NoLaunch => ~ld.last.logsErr /\ ~ld.last.raw.metaErr

C17_FailedTxDropped ==
  /\ ld.last.sig # 0 /\ ld.last.fetched /\ ld.last.raw.metaErr
  /\ searchCreate(ld.last.raw).ok /\ searchCreate(ld.last.raw).mint # ""
  /\ ld.last.event = NoLaunch

InitQueue ==
  /\ cfg = MkCfg(TRUE, FALSE, "trailing", 0, 0, FALSE)
  /\ det = startBuyDetection("auto", "yes")
  /\ calc = NoCalc /\ ld = NoLd /\ ab = NoAb
  \* What an accepted candidate leads to (attemptAutoBuy, simulateAutoBuy or
  \* nothing) and whether the funder check is on.
  /\ dq \in {[NoDq EXCEPT !.on = TRUE, !.conf = c] :
               c \in [entry : {"auto", "sim", "none"}, funderCheck : BOOLEAN]}
  /\ Start

NextQueue ==
  \/ Tick
  \/ \E m \in Mints, bt \in {0, now, now - 9} : OnCreate(m, bt)
  \/ \E i \in 1..MaxCands : QEnriched(i)
  \/ \E i \in 1..MaxCands, pass \in BOOLEAN, firstTime \in BOOLEAN :
        QSocialDone(i, pass, firstTime)
  \/ \E i \in 1..MaxCands, tooLarge \in BOOLEAN : QInitialBuyDone(i, tooLarge)
  \/ \E i \in 1..MaxCands, known \in BOOLEAN : QFunderDone(i, known)
  \/ \E i \in 1..MaxCands : QGateThrows(i)
  \/ \E i \in 1..MaxCands : QBaselineDone(i)
  \/ \E i \in 1..MaxCands : QGapElapsed(i)
  \/ \E i \in 1..MaxCands, ok \in BOOLEAN : QBuyDone(i, ok)

SpecQueue == InitQueue /\ [][NextQueue]_vars

\* C18: at most one launch candidate is being processed at any time, and
\* while one is, the processing flag is up; a candidate that arrives meanwhile
\* waits in the queue.
C18_OneCandidateAtATime ==
  /\ Len(dq.runs) <= 1
  /\ dq.runs # <<>> => dq.processing
  /\ (dq.runs = <<>> /\ dq.on) => (~dq.processing /\ dq.masterQueue = <<>>)

C18_CandidateWaits ==
  /\ Len(dq.runs) = 1 /\ dq.masterQueue # <<>>
  /\ dq.runs[1].evt.id > 1

\* C19: an entry attempt of the decision queue begins no sooner than
\* minBuyGapMs after the entry attempt before it ended.
C19_CooldownBetweenEntries ==
  \A i \in DOMAIN dq.runs :
    (dq.runs[i].pc = "buy" /\ dq.runs[i].prevEnd # -1) =>
      dq.runs[i].startedAt - dq.runs[i].prevEnd >= MinBuyGapMs

C19_SecondEntryAfterWait ==
  /\ dq.runs # <<>> /\ dq.runs[1].pc = "buy" /\ dq.runs[1].prevEnd # -1
  /\ dq.runs[1].due > 0

InitBuy ==
  /\ cfg = MkCfg(TRUE, FALSE, "trailing", 0, 0, FALSE)
  /\ det = startBuyDetection("auto", "yes")
  /\ calc = NoCalc /\ ld = NoLd /\ dq = NoDq
  \* Bundling on or off, a tip account configured or not, the JSON-RPC or the
  \* gRPC sender.
  /\ ab \in {[NoAb EXCEPT !.on = TRUE, !.conf = c] :
               c \in [jitoEnabled : BOOLEAN, tipAccount : BOOLEAN, jsonRpc : BOOLEAN]}
  /\ Start

NextBuy ==
  \/ \E m \in Mints : AbCall(m)
  \/ \E ok \in BOOLEAN : AbBuilt(ok)
  \/ \E res \in {"ok", "rejected", "throw"} : AbBundleDone(res)
  \/ \E ok \in BOOLEAN : AbBlockhashDone(ok)
  \/ \E ok \in BOOLEAN : AbSendDone(ok)
  \/ AbWaitDone

SpecBuy == InitBuy /\ [][NextBuy]_vars

\* C20: with bundling enabled, a call of attemptAutoBuy whose bundle of buy
\* and tip was accepted makes no plain submission; a call whose bundle was
\* rejected, whose bundle submission threw, or that found no tip account makes
\* one plain submission once the fallback's blockhash is fetched, and never
\* more; a plain submission holds the buy transaction alone.
C20_BundleOrPlainBuy ==
  ab.conf.jitoEnabled =>
    /\ \A i \in DOMAIN ab.bundles : ab.bundles[i] = <<Tx("buy", 1), Tx("tip", 1)>>
    /\ ab.bundleRes = "ok" => ab.plain = <<>>
    /\ Len(ab.plain) <= 1
    /\ \A i \in DOMAIN ab.plain :
         Len(ab.plain[i]) = 1 /\ ab.plain[i][1].kind = "buy"
    /\ (ab.fresh /\ (ab.bundleRes \in {"rejected", "throw"} \/ ~ab.conf.tipAccount)) =>
         Len(ab.plain) = 1

C20_FallbackAfterRejection ==
  /\ ab.conf.jitoEnabled /\ ab.bundleRes = "rejected"
  /\ ab.pc = "done" /\ Len(ab.plain) = 1

\* C21: one exit attempt submits at most two transactions; it goes into its
\* second submission only after a confirmation wait of the first one timed
\* out, and an attempt with two timeouts ends in failure.
C21_ResubmitOnlyAfterTimeout ==
  /\ sell.subs <= 2
  /\ sell.attempt = 2 => sell.timeouts >= 1
  /\ hist.lastExit.timeouts = 2 => hist.lastExit.result = "fail"

\* C22: under the trailing strategy an evaluation whose quote sets a new peak
\* (no peak stored yet, or a quote above the stored one) stores the quote as
\* the peak and ends there: no exit is started, nothing is recorded and the
\* position stays, whatever the loss against the cost.
C22_NewPeakOnlyUpdates ==
  (/\ calc.pc = "done" /\ cfg.sellStrategy = "trailing" /\ ~calc.complete
   /\ (calc.peakBefore = NoPeak \/ calc.out > calc.peakBefore)) =>
    /\ calc.peak = calc.out
    /\ calc.act = "return"
    /\ calc.reason = ""
    /\ ~calc.closed

C22_FirstQuoteBelowStopLoss ==
  /\ calc.pc = "done" /\ cfg.sellStrategy = "trailing" /\ SimOnly /\ cfg.simHardSlEnabled
  /\ calc.peakBefore = NoPeak /\ calc.cost = 5000 /\ calc.out = 4000
  /\ calc.peak = 4000 /\ ~calc.closed

\* C23: an evaluation that found the position's token account missing or
\* empty removes the position, starts no exit for it and records no closed
\* trade.
C23_GoneRemovedSilently ==
  hist.lastGone # 0 =>
    /\ ~Live(positions, hist.lastGone)
    /\ sell.uid # hist.lastGone
    /\ hist.lastTrade = NoTrade
    /\ hist.simCloses[hist.lastGone] = 0


\* C24: in simulation the time limit and the flat-market exit close a position
\* under the fixed and the trailing policy alike.  An evaluation made when the
\* holding time is over closes the position with reason TTL; an evaluation
\* whose quote is within simFlatBps of the quote of the evaluation before,
\* one window (simFlatSecs) or more earlier, closes it, with reason FLAT
\* unless a rule of the policy closed it.
C24_AuxiliaryExitsUnderBothPolicies ==
  (calc.pc = "done" /\ SimOnly) =>
    /\ (cfg.simTtlMs > 0 /\ NowMs >= -1000 + cfg.simTtlMs) =>
          (calc.closed /\ calc.reason = "TTL")
    /\ (/\ cfg.simFlatSecs > 0 /\ cfg.simFlatBps > 0
        /\ calc.lastOut > 0
        /\ LoopSleepMs >= cfg.simFlatSecs * 1000
        /\ (IF calc.out >= calc.lastOut THEN calc.out - calc.lastOut
                                       ELSE calc.lastOut - calc.out) * 10000
             <= cfg.simFlatBps * calc.lastOut) =>
          (calc.closed /\ calc.reason \in {"FLAT", "TP", "SL", "TSL"})

\* C25: in the poll path a poll made while no mark is recorded handles
\* nothing; a signature handed to handleSignature by a later poll is strictly
\* newer than the mark and older than every signature the poll has still to
\* hand over; the mark never moves back, and when a poll has ended every
\* signature it handled is at or before the mark.
C25_PollHandlesOnlyNewerThanMark ==
  [][~det.wsActive =>
       /\ \A s \in Sigs :
            det'.delivs[s] > det.delivs[s] =>
              /\ det.tipSig # 0
              /\ s > det.tipSig
              /\ det'.delivs[s] = 1
              /\ \A i \in 1..Len(det'.pending) : s < det'.pending[i]
       /\ det'.tipSig >= det.tipSig
       /\ det'.ppc = "sleep" =>
            \A s \in Sigs : det'.delivs[s] > 0 => s <= det'.tipSig]_vars

\* Two signatures that appeared after the mark was recorded were handled by
\* one poll, and the mark has moved to the newer of them.
C25_TwoPolledInOrder ==
  /\ ~det.wsActive
  /\ det.ppc = "sleep"
  /\ det.delivs[1] = 0 /\ det.delivs[2] = 1 /\ det.delivs[3] = 1
  /\ det.tipSig = 3

\* C26: the processed set holds at most ProcessedCap signatures and is the set
\* of the entries of processedQueue, which holds none twice; a signature of
\* the run is in it only after its buy was emitted; and the queue changes only
\* by a new signature appended at its end, the oldest entry leaving at the
\* head when the capacity would be exceeded.
C26_ProcessedSetBounded ==
  /\ [](/\ Cardinality(det.processed) <= ProcessedCap
        /\ det.processed = {det.processedQueue[i] : i \in 1..Len(det.processedQueue)}
        /\ Len(det.processedQueue) = Cardinality(det.processed)
        /\ \A s \in det.processed \cap Sigs : det.emits[s] >= 1)
  /\ [][det'.processedQueue # det.processedQueue =>
          \E s \in Sigs \ det.processed :
            /\ det'.emits[s] = det.emits[s] + 1
            /\ det'.processedQueue =
                 IF Len(det.processedQueue) = ProcessedCap
                   THEN Append(Tail(det.processedQueue), s)
                   ELSE Append(det.processedQueue, s)]_vars

\* A full processed set took a further signature and lost its oldest one.
C26_OldestEvicted ==
  /\ Len(det.processedQueue) = ProcessedCap
  /\ -1 \notin det.processed
  /\ det.processed \cap Sigs # {}

\* Either detector alone, with every pending reply arriving at last: the RPC
\* calls of the handlers settle and the wait for a confirmation ends, by its
\* timer at the latest.
InitInFlight ==
  /\ cfg = MkCfg(TRUE, FALSE, "trailing", 0, 0, FALSE)
  /\ calc = NoCalc /\ dq = NoDq /\ ab = NoAb
  /\ \/ det \in {startBuyDetection(mode, "yes") : mode \in {"auto", "poll"}} /\ ld = NoLd
     \/ det = [startBuyDetection("auto", "yes") EXCEPT !.wsActive = FALSE]
        /\ ld = startOnchainCreateDetection
  /\ Start

\* Raw transactions with one top-level instruction, no inner ones and no
\* token balance: without a create, with a create and its mint, and with a
\* create whose mint the parsed transaction must give.
SomeRawTxs ==
  {raw \in RawTxs : /\ ~raw.metaErr /\ raw.inner = <<>>
                    /\ Len(raw.top) = 1 /\ raw.postTB = <<>>}

NextInFlight ==
  \/ ld = NoLd /\ NextDetect
  \/ \E err \in BOOLEAN, sig \in LSigs \cup {0}, hasCreate \in BOOLEAN :
        OnLogs(err, sig, hasCreate)
  \/ \E s \in LSigs, res \in {"ok", "err", "timeout"} : LdWsDone(s, res)
  \/ \E s \in LSigs, k \in {"throw", "null"} : LdRawFetched(s, k, NoRaw)
  \/ \E s \in LSigs, raw \in SomeRawTxs : LdRawFetched(s, "ok", raw)
  \/ \E s \in LSigs, p \in ParsedResults : LdParsedFetched(s, p)
  \/ LdStop

SpecInFlight ==
  /\ InitInFlight /\ [][NextInFlight]_vars
  /\ \A s \in Sigs : WF_vars(\E r \in {"null", "tx", "throw"} : HandleDone(s, r))
  /\ \A s \in LSigs :
       /\ WF_vars(\E res \in {"ok", "err", "timeout"} : LdWsDone(s, res))
       /\ WF_vars(\E k \in {"throw", "null", "ok"}, raw \in SomeRawTxs :
                    LdRawFetched(s, k, raw))
       /\ WF_vars(\E p \in ParsedResults : LdParsedFetched(s, p))

\* C27: in both detectors the in-flight set is the set of signatures with a
\* handleSignature call under way, of which there is one at most; and a
\* signature in flight leaves the set at last.
C27_InFlightWhileHandling ==
  /\ [](/\ det.inFlight = {s \in Sigs : det.running[s] > 0}
        /\ \A s \in Sigs : det.running[s] <= 1
        /\ ld.inFlight = {s \in LSigs : ld.h[s].pc # "idle"})
  /\ \A s \in Sigs : (s \in det.inFlight) ~> (s \notin det.inFlight)
  /\ \A s \in LSigs : (s \in ld.inFlight) ~> (s \notin ld.inFlight)

\* A handling in the launch detector ended without an event and its signature
\* has left the in-flight set.
C27_HandledAndReleased ==
  /\ ld.last.sig # 0
  /\ ld.last.event = NoLaunch
  /\ ld.last.sig \notin ld.inFlight

\* C28: parseBuyEvent gives an event, and the ledger a position, only for a
\* transaction whose cost is above zero, the cost being the parsed transfers
\* of the wallet or, without any, preBalance - postBalance - fee - rent; the
\* event carries that cost.
C28_EventOnlyForPositiveCost ==
  LET tx == calc.tx
      cost == IF tx.parsedCost > 0 THEN tx.parsedCost
              ELSE tx.preLamports - tx.postLamports - tx.fee - tx.rent
  IN calc.pc = "parsed" =>
       /\ calc.evt # NoEvent => (cost > 0 /\ calc.evt.solCostLamports = cost)
       /\ cost <= 0 => (calc.evt = NoEvent /\ calc.ledger = 0)

\* C29: an emitted launch event carries a creator: the creator argument of
\* the decoded create when it has one, otherwise the key at the user position
\* of the create instruction; never none.
C29_EventCarriesCreator ==
  ld.last.event # NoLaunch =>
    LET d == searchCreate(ld.last.raw) IN
    /\ ld.last.event.creator # ""
    /\ ld.last.event.creator = IF d.creator # "" THEN d.creator ELSE d.user

\* C30: in mode 'auto' or 'ws', when the subscription could not be
\* established the failure is logged and the poll loop runs until the
\* detector is stopped; when it was established the poll loop is off and no
\* mark is recorded.
C30_PollingIffSubscriptionFailed ==
  det.mode \in {"auto", "ws"} =>
    /\ det.subFailed =>
          (det.logged /\ (det.ppc = "off" => det.stopped))
    /\ ~det.subFailed =>
          (det.wsActive /\ det.ppc = "off" /\ det.tipSig = 0 /\ det.pending = <<>>)

\* C31: a buy of an asset that has a position leaves the position's mint and
\* peak as they were and sets its openedSig to the buy's signature and its
\* openedAt to the buy's time (its block time, or the clock when it has
\* none); and an evaluation of a position begins only when MinHoldMs have
\* passed since the openedAt the position has then.
C31_LatestBuyRestartsHold ==
  [][/\ \A u \in Uids :
          (buys' = buys + 1 /\ Live(positions, u)
             /\ positions'.objs[u] # positions.objs[u]) =>
            (/\ positions'.objs[u].mint = positions.objs[u].mint
             /\ positions'.objs[u].peakSolOut = positions.objs[u].peakSolOut
             /\ positions'.objs[u].openedSig = buys'
             /\ positions'.objs[u].openedAt \in {now, now - 1})
     /\ (tpc' = "fetch" /\ (tpc # "fetch" \/ idx' # idx)) =>
           (now' * 1000 >= positions'.objs[snap'[idx']].openedAt * 1000 + MinHoldMs)]_vars

\* A position with a recorded peak took a second buy.
C31_SecondBuyOnPeakedPosition ==
  \E u \in Uids :
    /\ Live(positions, u)
    /\ positions.objs[u].peakSolOut # NoPeak
    /\ positions.objs[u].openedSig = 2
    /\ positions.objs[u].tokens = sumTokens[u]
    /\ positions.objs[u].openedAt >= now - 1

\* C32: a candidate whose entry (attemptAutoBuy or simulateAutoBuy) has been
\* invoked has no hard fail from the gates and was, when it was dequeued, no
\* older than maxCreateAgeMs; and an entry is configured.
C32_EntryOnlyForAcceptedFresh ==
  \A i \in DOMAIN dq.runs :
    dq.runs[i].pc = "buy" =>
      /\ ~dq.runs[i].hardFails
      /\ dq.conf.entry # "none"
      /\ dq.runs[i].evt.blockTime # 0 =>
           dq.runs[i].dequeuedAt - dq.runs[i].evt.blockTime * 1000 <= MaxCreateAgeMs

\* The entry of a candidate that had waited in the queue was invoked.
C32_AgedCandidateEntered ==
  \E i \in DOMAIN dq.runs :
    /\ dq.runs[i].pc = "buy"
    /\ dq.runs[i].evt.blockTime # 0
    /\ dq.runs[i].dequeuedAt > dq.runs[i].evt.blockTime * 1000

\* C33: the selling set holds the mint of the exit attempt under way and
\* nothing else; it is empty whenever no sellAll is executing, after a
\* failed attempt as after a confirmed one.
C33_MarkerOnlyDuringAttempt ==
  selling = IF tpc \in SellPcs THEN {sell.mint} ELSE {}

\* An exit attempt failed; its position is still held and no longer marked.
C33_FailedExitUnmarked ==
  /\ hist.lastExit.result = "fail"
  /\ Live(positions, hist.lastExit.uid)
  /\ positions.objs[hist.lastExit.uid].mint \notin selling

\* C34: once stop() was called no tick begins: a loop that sleeps takes no
\* further snapshot of the ledger and evaluates nothing, it only ends, and an
\* ended loop stays ended; the tick in progress at the call is the last.
C34_NoTickAfterStop ==
  [][(stopFlag /\ tpc \in {"sleep", "done"}) =>
       /\ tpc' \in {tpc, "done"}
       /\ snap' = snap /\ idx' = idx /\ wakeAt' = wakeAt]_vars

\* stop() was called during a tick; the tick was finished and the loop ended
\* with a position still held.
C34_LoopEndedAfterStop ==
  /\ stopFlag
  /\ tpc = "done"
  /\ positions.byMint # <<>>

\* C35: the launch detector calls onCreate once at most for a signature,
\* however many log notifications carry it and whenever they arrive.
C35_OneLaunchEventPerSignature ==
  \A s \in LSigs : ld.emits[s] <= 1

\* A notification arrived for a signature whose launch event had been emitted
\* and was dropped.
C35_RepeatedNotificationDropped ==
  /\ ld.dropped # 0
  /\ ld.emits[ld.dropped] = 1
  /\ ld.dropped \in ld.processed

\* C36: a buy that races with an exit is not lost.  When a sell is confirmed and
\* the position had received buys after the sell amount was fixed, the ledger
\* still holds a position for that mint afterwards, whose tokens and
\* costLamports are those of the buys that arrived during the sell.
C36_RacingBuySurvivesExit ==
  [][(/\ tpc = "waitConfirmed"
      /\ sell' = NoSell
      /\ hist'.lastExit.result = "ok"
      /\ get(positions, sell.mint) # 0
      /\ positions.objs[get(positions, sell.mint)].tokens > sell.amount) =>
       \E u \in Uids :
         /\ Live(positions', u)
         /\ positions'.objs[u].mint = sell.mint
         /\ positions'.objs[u].tokens =
              positions.objs[get(positions, sell.mint)].tokens - sell.amount
         /\ positions'.objs[u].costLamports =
              positions.objs[get(positions, sell.mint)].costLamports - sell.costAtStart]_vars

\* C37: in simulation mode an opened position gets at most one closed-trade
\* record, under any interleaving of the tick loop with the two no-inflow
\* probes, and a record is written only together with the removal of that
\* position from the ledger.
C37_OneCloseRecordPerPosition ==
  /\ [](\A u \in Uids : hist.simCloses[u] <= 1)
  /\ [][\A u \in Uids :
          hist'.simCloses[u] > hist.simCloses[u] =>
            (Live(positions, u) /\ ~Live(positions', u))]_vars

\* The wallet-buy detector with the scheduling of its poll loop: the timer of
\* line 450 fires, an awaited getParsedTransaction is answered, and
\* getSignaturesForAddress succeeds again and again (a poll may fail, but not
\* for ever).  The wallet has no history when the detector starts.
SpecPollFair ==
  /\ InitDetect /\ [][NextDetect]_vars
  /\ WF_vars(PollWake)
  /\ SF_vars(PollFetched(TRUE))
  /\ \A s \in Sigs : WF_vars(\E r \in {"null", "tx", "throw"} : HandleDone(s, r))

\* C38: in poll mode, with polls that keep succeeding, every signature that
\* appears for the wallet after the detector was started is passed to
\* handleSignature at last, unless the detector is stopped: also when the
\* wallet had no history at start-up.
C38_PolledSignatureHandledAtLast ==
  \A s \in Sigs :
    (~det.wsActive /\ s <= Len(det.txs)) ~> (det.delivs[s] > 0 \/ det.stopped)

\* The decision queue with its scheduling: time passes, and every awaited
\* step of a candidate's processing (metadata, gates, baseline, cooldown
\* timer, entry attempt) comes to its end.
SpecQueueFair ==
  /\ InitQueue /\ [][NextQueue]_vars
  /\ WF_vars(Tick)
  /\ WF_vars(\E i \in 1..MaxCands :
               \/ QEnriched(i)
               \/ \E pass \in BOOLEAN, firstTime \in BOOLEAN : QSocialDone(i, pass, firstTime)
               \/ \E tooLarge \in BOOLEAN : QInitialBuyDone(i, tooLarge)
               \/ \E known \in BOOLEAN : QFunderDone(i, known)
               \/ QBaselineDone(i)
               \/ QGapElapsed(i)
               \/ \E ok \in BOOLEAN : QBuyDone(i, ok))

\* The candidate with this arrival number waits in the queue.
Queued(id) == \E i \in DOMAIN dq.masterQueue : dq.masterQueue[i].id = id

\* C39: the queue never rests with pending candidates while no candidate is
\* being processed; candidates leave the queue in the order of their arrival
\* (whoever leaves arrived before everyone who stays, and the queue is in
\* arrival order); and every queued candidate is dequeued at last, unless the
\* run's clock ends while the candidate before it waits for its cooldown.
C39_QueuedCandidateProcessedInOrder ==
  /\ [](dq.masterQueue # <<>> => (dq.processing /\ dq.runs # <<>>))
  /\ [](\A i, j \in DOMAIN dq.masterQueue :
          i < j => dq.masterQueue[i].id < dq.masterQueue[j].id)
  /\ [][\A id \in 1..MaxCands :
          (Queued(id) /\ ~Queued(id)') =>
            /\ \A j \in DOMAIN dq'.masterQueue : dq'.masterQueue[j].id > id
            /\ \A r \in DOMAIN dq'.runs : dq'.runs[r].evt.id >= id]_vars
  /\ \A id \in 1..MaxCands :
       Queued(id) ~>
         (\/ ~Queued(id)
          \/ /\ now = MaxTicks
             /\ \E r \in DOMAIN dq.runs :
                  dq.runs[r].pc = "gapWait" /\ dq.runs[r].due > NowMs)

\* Two candidates waited behind a third, and the first of them is being
\* processed while the second still waits.
C39_SecondTakenBeforeThird ==
  /\ Len(dq.runs) = 1 /\ dq.runs[1].evt.id = 2
  /\ Len(dq.masterQueue) = 1 /\ dq.masterQueue[1].id = 3

\* C40: every closed-trade record written in simulation is consistent with
\* the position it closes: pnlLamports is the proceeds less the position's
\* cost, and pnlPct is (pnlLamports * 10000) div cost, over 10000 (0 for a zero
\* cost), whatever the close reason.
C40_CloseRecordConsistent ==
  [][\A u \in Uids :
       hist'.simCloses[u] > hist.simCloses[u] =>
         LET t == hist'.lastTrade
             cost == positions.objs[u].costLamports
         IN /\ t.pnlLamports = t.proceeds - cost
            /\ t.pnlBps = IF cost = 0 THEN 0 ELSE TruncDiv(t.pnlLamports * 10000, cost)]_vars

====
